---- MODULE Spec2Model ----
(***************************************************************************)
(* FiberValidator: the request-body validation middleware.                 *)
(*                                                                         *)
(* Strings are sequences of byte values (Go strings are byte strings).     *)
(* A request is a method, a Content-Type header and a body; a body is raw  *)
(* text, or a JSON / XML document given by its decoded content together    *)
(* with the text that encodes it.                                          *)
(***************************************************************************)
EXTENDS Integers, Sequences, FiniteSets, TLC

VARIABLES
    given,        \* the arguments New was called with (a sequence of 0 or 1 Config)
    cfg,          \* the configuration captured by the handler closure
    req,          \* req[r]: the request of handler invocation r
    pc,           \* pc[r]: position of invocation r in the handler
    idx,          \* idx[r]: index of the rule the loop is at
    err,          \* err[r]: the verdict of the last rule evaluated
    evaluated,    \* evaluated[r]: indices of the rules evaluated, in order
    branch,       \* branch[r]: branches chosen by restrictByContentType, in order
    locals,       \* locals[r]: what c.Locals(cfg.ContextKey) returns
    localsWrites, \* localsWrites[r]: number of c.Locals(key, value) calls
    seen,         \* seen[r]: the stored verdict the error handler could observe
    resp,         \* resp[r]: the response as left by this layer
    nextCalls,    \* nextCalls[r]: number of c.Next() calls
    handlerCalls, \* handlerCalls[r]: number of cfg.ErrorHandler calls
    handlerArg,   \* handlerArg[r]: the error passed to cfg.ErrorHandler
    returned,     \* returned[r]: what the handler returned to the host
    extraction    \* the last call of an extractor made on its own: arguments, result

vars == <<given, cfg, req, pc, idx, err, evaluated, branch, locals, localsWrites,
          seen, resp, nextCalls, handlerCalls, handlerArg, returned, extraction>>

----------------------------------------------------------------------------
(* Bounds of the model *)

MaxRules == 2

----------------------------------------------------------------------------
(* Byte strings *)

\* Go s[lo:hi] (0-based, hi exclusive); the caller checks 0 <= lo <= hi <= len(s)
Slice(s, lo, hi) == SubSeq(s, lo + 1, hi)

HasPrefixAt(s, p, i) ==
    /\ i + Len(p) <= Len(s)
    /\ SubSeq(s, i + 1, i + Len(p)) = p

\* strings.Index: 0-based position of the first occurrence of sub in s, or -1
Index(s, sub) ==
    LET hits == {i \in 0..(Len(s) - Len(sub)) : HasPrefixAt(s, sub, i)}
    IN  IF hits = {} THEN -1
        ELSE CHOOSE i \in hits : \A j \in hits : i <= j

LowerASCII(ch) == IF ch >= 65 /\ ch <= 90 THEN ch + 32 ELSE ch

UpperASCII(ch) == IF ch >= 97 /\ ch <= 122 THEN ch - 32 ELSE ch

IsCont(ch) == ch >= 128 /\ ch <= 191

\* unicode.ToLower on the two-byte runes U+00C0..U+00DE (0xC3 0x80..0x9E, not U+00D7)
LowerCont(lead, cont) ==
    IF lead = 195 /\ cont >= 128 /\ cont <= 158 /\ cont # 151 THEN cont + 32 ELSE cont

\* strings.Map(unicode.ToLower, s): a byte that is no valid UTF-8 becomes U+FFFD
\* (three bytes), so the result can be longer than s
RECURSIVE MapLower(_)
MapLower(s) ==
    IF s = <<>> THEN <<>>
    ELSE LET ch == Head(s) IN
         IF ch < 128
         THEN <<LowerASCII(ch)>> \o MapLower(Tail(s))
         ELSE IF ch >= 194 /\ ch <= 223 /\ Len(s) >= 2 /\ IsCont(s[2])
         THEN <<ch, LowerCont(ch, s[2])>> \o MapLower(SubSeq(s, 3, Len(s)))
         ELSE IF ch >= 224 /\ ch <= 239 /\ Len(s) >= 3 /\ IsCont(s[2]) /\ IsCont(s[3])
         THEN <<ch, s[2], s[3]>> \o MapLower(SubSeq(s, 4, Len(s)))
         ELSE IF ch >= 240 /\ ch <= 244 /\ Len(s) >= 4
                 /\ IsCont(s[2]) /\ IsCont(s[3]) /\ IsCont(s[4])
         THEN <<ch, s[2], s[3], s[4]>> \o MapLower(SubSeq(s, 5, Len(s)))
         ELSE <<239, 191, 189>> \o MapLower(Tail(s))

\* strings.ToLower
ToLower(s) == MapLower(s)

\* ASCII white space as unicode.IsSpace sees it: \t \n \v \f \r and space
IsSpace(ch) == ch \in {9, 10, 11, 12, 13, 32}

RECURSIVE TrimLeft(_)
TrimLeft(s) ==
    IF s # <<>> /\ IsSpace(Head(s)) THEN TrimLeft(Tail(s)) ELSE s

RECURSIVE TrimRight(_)
TrimRight(s) ==
    IF s # <<>> /\ IsSpace(s[Len(s)]) THEN TrimRight(SubSeq(s, 1, Len(s) - 1)) ELSE s

\* strings.TrimSpace
TrimSpace(s) == TrimRight(TrimLeft(s))

RECURSIVE Concat(_)
Concat(ss) == IF ss = <<>> THEN <<>> ELSE Head(ss) \o Concat(Tail(ss))

\* strings.Join
RECURSIVE Join(_, _)
Join(ss, sep) ==
    IF ss = <<>> THEN <<>>
    ELSE IF Len(ss) = 1 THEN ss[1]
    ELSE ss[1] \o sep \o Join(Tail(ss), sep)

\* decimal digits of a natural number
RECURSIVE Digits(_)
Digits(n) == IF n < 10 THEN <<48 + n>> ELSE Digits(n \div 10) \o <<48 + (n % 10)>>

\* strconv.Itoa, and the %d verb
Itoa(n) == IF n < 0 THEN <<45>> \o Digits(0 - n) ELSE Digits(n)

\* the largest int, on a build whose int has 32 bits (1<<31 - 1); a build with 64
\* bits behaves alike at 1<<63 - 1
MaxInt == 2147483647

\* strconv.ParseInt over decimal digits, from the value acc of the digits read so
\* far: a value out of the range of int gives the largest int (and an error)
RECURSIVE ParseDigits(_, _)
ParseDigits(s, acc) ==
    IF s = <<>> THEN acc
    ELSE LET d == Head(s) - 48 IN
         IF acc > (MaxInt - d) \div 10 THEN MaxInt
         ELSE ParseDigits(Tail(s), 10 * acc + d)

\* value of a string of decimal digits as an int
DigitsValue(s) == ParseDigits(s, 0)

\* fmt.Sprintf for the verbs %s and %d: each verb takes the next argument,
\* already rendered as text
RECURSIVE Sprintf(_, _)
Sprintf(format, args) ==
    IF format = <<>> THEN <<>>
    ELSE IF Len(format) >= 2 /\ format[1] = 37 /\ format[2] \in {115, 100} /\ args # <<>>
    THEN Head(args) \o Sprintf(SubSeq(format, 3, Len(format)), Tail(args))
    ELSE <<Head(format)>> \o Sprintf(Tail(format), args)

----------------------------------------------------------------------------
(* Messages and constants of the package *)

\* "Invalid JSON request body"
ErrInvalidJSONBody ==
    <<73, 110, 118, 97, 108, 105, 100, 32, 74, 83, 79, 78, 32, 114, 101, 113, 117,
      101, 115, 116, 32, 98, 111, 100, 121>>

\* "Invalid XML request body"
ErrInvalidXMLBody ==
    <<73, 110, 118, 97, 108, 105, 100, 32, 88, 77, 76, 32, 114, 101, 113, 117, 101,
      115, 116, 32, 98, 111, 100, 121>>

\* "Unicode characters are not allowed in the '%s' field"
ErrUnicodeNotAllowedInField ==
    <<85, 110, 105, 99, 111, 100, 101, 32, 99, 104, 97, 114, 97, 99, 116, 101, 114,
      115, 32, 97, 114, 101, 32, 110, 111, 116, 32, 97, 108, 108, 111, 119, 101, 100,
      32, 105, 110, 32, 116, 104, 101, 32, 39, 37, 115, 39, 32, 102, 105, 101, 108,
      100>>

\* "The '%s' field must contain only numbers"
ErrFieldMustContainNumbersOnly ==
    <<84, 104, 101, 32, 39, 37, 115, 39, 32, 102, 105, 101, 108, 100, 32, 109, 117,
      115, 116, 32, 99, 111, 110, 116, 97, 105, 110, 32, 111, 110, 108, 121, 32, 110,
      117, 109, 98, 101, 114, 115>>

\* "The '%s' field must not exceed %d"
ErrFieldExceedsMaximumValue ==
    <<84, 104, 101, 32, 39, 37, 115, 39, 32, 102, 105, 101, 108, 100, 32, 109, 117,
      115, 116, 32, 110, 111, 116, 32, 101, 120, 99, 101, 101, 100, 32, 37, 100>>

\* "The '%s' field must not exceed %d digits"
ErrFieldExceedsMaximumDigits ==
    <<84, 104, 101, 32, 39, 37, 115, 39, 32, 102, 105, 101, 108, 100, 32, 109, 117,
      115, 116, 32, 110, 111, 116, 32, 101, 120, 99, 101, 101, 100, 32, 37, 100, 32,
      100, 105, 103, 105, 116, 115>>

\* "The '%s' field must not exceed %d characters"
ErrFieldExceedsMaximumLength ==
    <<84, 104, 101, 32, 39, 37, 115, 39, 32, 102, 105, 101, 108, 100, 32, 109, 117,
      115, 116, 32, 110, 111, 116, 32, 101, 120, 99, 101, 101, 100, 32, 37, 100, 32,
      99, 104, 97, 114, 97, 99, 116, 101, 114, 115>>

\* "The '%s' fields must not exceed the maximum length"
ErrFieldsExceedMaximumLength ==
    <<84, 104, 101, 32, 39, 37, 115, 39, 32, 102, 105, 101, 108, 100, 115, 32, 109,
      117, 115, 116, 32, 110, 111, 116, 32, 101, 120, 99, 101, 101, 100, 32, 116, 104,
      101, 32, 109, 97, 120, 105, 109, 117, 109, 32, 108, 101, 110, 103, 116, 104>>

\* the separator "', '" the field names of a combined message are joined with
JoinSep == <<39, 44, 32, 39>>

numericStart == 48

numericEnd == 57

\* the largest byte of the ASCII range
asciiMax == 127

StatusBadRequest == 400

StatusOK == 200

StatusUnprocessableEntity == 422

MIMEApplicationJSON == "application/json"

MIMEApplicationJSONCharsetUTF8 == "application/json; charset=utf-8"

MIMEApplicationXML == "application/xml"

MIMEApplicationXMLCharsetUTF8 == "application/xml; charset=utf-8"

MIMETextXML == "text/xml"

MIMETextXMLCharsetUTF8 == "text/xml; charset=utf-8"

----------------------------------------------------------------------------
(* Errors *)

\* a nil error: the rule passed
Pass == [kind |-> "pass", status |-> 0, message |-> <<>>]

\* NewError: a validation failure, an *Error
NewError(status, message) == [kind |-> "fail", status |-> status, message |-> message]

\* an error value that is no *Error (a Restrictor of the caller may return one)
PlainError(message) == [kind |-> "error", status |-> 0, message |-> message]

\* a run-time panic: the call does not return
Panic == [kind |-> "panic", status |-> 0, message |-> <<>>]

----------------------------------------------------------------------------
(* Content-type dispatch *)

\* restrictByContentType: which of the three functions it calls
ContentTypeBranch(contentType) ==
    IF contentType \in {MIMEApplicationJSON, MIMEApplicationJSONCharsetUTF8}
    THEN "json"
    ELSE IF contentType \in {MIMEApplicationXML, MIMEApplicationXMLCharsetUTF8,
                             MIMETextXML, MIMETextXMLCharsetUTF8}
    THEN "xml"
    ELSE "other"

restrictByContentType(q, restrictJSON, restrictXML, restrictOther) ==
    LET contentType == q.contentType IN
    CASE ContentTypeBranch(contentType) = "json" -> restrictJSON
      [] ContentTypeBranch(contentType) = "xml" -> restrictXML
      [] OTHER -> restrictOther

----------------------------------------------------------------------------
(* Request bodies *)

\* a JSON string, a JSON number, any other JSON value (true, null, [..], {..})
Str(s) == [t |-> "str", s |-> s, n |-> 0]

Num(n) == [t |-> "num", s |-> <<>>, n |-> n]

OtherValue == [t |-> "other", s |-> <<>>, n |-> 0]

\* a body of raw text
TextBody(raw) == [kind |-> "text", wf |-> TRUE, doc |-> <<>>, raw |-> raw]

\* a JSON object with the members doc (pairs <<key, value>>, in the order they
\* are written); wf = FALSE: its text cut off before the end
JSONBody(doc, wf) == [kind |-> "json", wf |-> wf, doc |-> doc, raw |-> <<>>]

\* an XML document whose root holds the elements doc (pairs <<tag, Str(text)>>)
XMLBody(doc, wf) == [kind |-> "xml", wf |-> wf, doc |-> doc, raw |-> <<>>]

\* form text k=v&k=v of the pairs doc (pairs <<key, Str(text)>>)
FormBody(doc) == [kind |-> "form", wf |-> TRUE, doc |-> doc, raw |-> <<>>]

JSONValueText(v) ==
    CASE v.t = "str" -> <<34>> \o v.s \o <<34>>
      [] v.t = "num" -> Itoa(v.n)
      [] OTHER -> <<116, 114, 117, 101>>

\* {"k":v,"k":v}
RECURSIVE JSONMembers(_)
JSONMembers(doc) ==
    IF doc = <<>> THEN <<>>
    ELSE <<34>> \o doc[1][1] \o <<34, 58>> \o JSONValueText(doc[1][2])
         \o (IF Len(doc) > 1 THEN <<44>> ELSE <<>>) \o JSONMembers(Tail(doc))

\* <k>v</k><k>v</k>
RECURSIVE XMLElements(_)
XMLElements(doc) ==
    IF doc = <<>> THEN <<>>
    ELSE <<60>> \o doc[1][1] \o <<62>> \o doc[1][2].s \o <<60, 47>> \o doc[1][1] \o <<62>>
         \o XMLElements(Tail(doc))

\* k=v&k=v
RECURSIVE FormPairs(_)
FormPairs(doc) ==
    IF doc = <<>> THEN <<>>
    ELSE doc[1][1] \o <<61>> \o doc[1][2].s
         \o (IF Len(doc) > 1 THEN <<38>> ELSE <<>>) \o FormPairs(Tail(doc))

\* c.Body(): the bytes of the request body
Body(q) ==
    LET b == q.body
        full == CASE b.kind = "json" -> <<123>> \o JSONMembers(b.doc) \o <<125>>
                  [] b.kind = "xml" ->
                        <<60, 100, 97, 116, 97, 62>> \o XMLElements(b.doc)
                            \o <<60, 47, 100, 97, 116, 97, 62>>
                  [] b.kind = "form" -> FormPairs(b.doc)
                  [] OTHER -> b.raw
    IN  IF b.wf THEN full ELSE SubSeq(full, 1, Len(full) - 1)

HasKey(doc, key) == \E i \in 1..Len(doc) : doc[i][1] = key

\* the value a decoder keeps for a key written more than once is the last one
Lookup(doc, key) ==
    LET i == CHOOSE i \in 1..Len(doc) :
                 /\ doc[i][1] = key
                 /\ \A j \in (i + 1)..Len(doc) : doc[j][1] # key
    IN  doc[i][2]

\* c.BodyParser(&body) into a map[string]interface{}, on the JSON branch: an error
\* unless the body is the text of a JSON object
BodyParser(q) ==
    [err |-> ~(q.body.kind = "json" /\ q.body.wf), doc |-> q.body.doc]

----------------------------------------------------------------------------
(* XML decoding into a struct built from the field names *)

IsLetter(ch) == (ch >= 65 /\ ch <= 90) \/ (ch >= 97 /\ ch <= 122)

IsDigit(ch) == ch >= 48 /\ ch <= 57

\* cases.Title(language.English).String: the first letter of every word in upper
\* case, the other letters in lower case
Title(s) ==
    [i \in 1..Len(s) |->
        IF i = 1 \/ ~(IsLetter(s[i - 1]) \/ IsDigit(s[i - 1]) \/ s[i - 1] = 95)
        THEN UpperASCII(s[i])
        ELSE LowerASCII(s[i])]

\* a Go identifier that is exported
IsExportedIdentifier(name) ==
    /\ name # <<>>
    /\ name[1] >= 65 /\ name[1] <= 90
    /\ \A i \in 1..Len(name) : IsLetter(name[i]) \/ IsDigit(name[i]) \/ name[i] = 95

\* reflect.StructOf(fields) returns: every name is an exported identifier and no
\* two fields have the same name; otherwise it panics
StructOfReturns(fields) ==
    /\ \A i \in 1..Len(fields) : IsExportedIdentifier(Title(fields[i]))
    /\ \A i, j \in 1..Len(fields) : i # j => Title(fields[i]) # Title(fields[j])

\* xml.Unmarshal(c.Body(), &struct): an error unless the body is a well-formed
\* document
XMLUnmarshalFails(q) == ~(q.body.kind = "xml" /\ q.body.wf)

\* bodyValue.FieldByName(caser.String(field)).String() after decoding: the text of
\* the first-level element whose name is the field's tag, "" without one
XMLFieldValue(q, field) ==
    IF HasKey(q.body.doc, field) THEN Lookup(q.body.doc, field).s ELSE <<>>

----------------------------------------------------------------------------
(* Extraction from unstructured bodies *)

\* the loop that skips ' ', ':' and '=' from position pos on
RECURSIVE SkipSeparators(_, _)
SkipSeparators(body, pos) ==
    IF pos < Len(body) /\ pos >= 0 /\ body[pos + 1] \in {32, 58, 61}
    THEN SkipSeparators(body, pos + 1)
    ELSE pos

\* the result of an extraction: the value, or a panic of a slice expression
Extracted(value) == [panic |-> FALSE, value |-> value]

SlicePanic == [panic |-> TRUE, value |-> <<>>]

\* the loop over r.Fields: the end of the value is where the first other field
\* (in the order of r.Fields) that occurs after the value start is found
RECURSIVE ValueEndPos(_, _, _, _, _)
ValueEndPos(body, bodyLower, valueStartPos, field, fields) ==
    IF fields = <<>> THEN Len(body)
    ELSE LET f == Head(fields) IN
         IF f # field
         THEN IF valueStartPos > Len(bodyLower) THEN -1
              ELSE LET endPos == Index(Slice(bodyLower, valueStartPos, Len(bodyLower)),
                                       ToLower(f))
                   IN  IF endPos # -1 THEN valueStartPos + endPos
                       ELSE ValueEndPos(body, bodyLower, valueStartPos, field, Tail(fields))
         ELSE ValueEndPos(body, bodyLower, valueStartPos, field, Tail(fields))

\* extractFieldValue(body, field, r) with fields = r.Fields
extractFieldValue(body, field, fields) ==
    LET fieldLower == ToLower(field)
        bodyLower == ToLower(body)
        startPos == Index(bodyLower, fieldLower)
    IN  IF startPos = -1 THEN Extracted(<<>>)
        ELSE LET valueStartPos == SkipSeparators(body, startPos + Len(fieldLower))
                 valueEndPos == ValueEndPos(body, bodyLower, valueStartPos, field, fields)
             IN  IF valueEndPos = -1 \/ valueStartPos > valueEndPos
                       \/ valueEndPos > Len(body)
                 THEN SlicePanic
                 ELSE Extracted(TrimSpace(Slice(body, valueStartPos, valueEndPos)))

\* the loop that looks for '&', '\n' or '\r' from position i on
RECURSIVE NumberValueEndPos(_, _)
NumberValueEndPos(body, i) ==
    IF i < Len(body)
    THEN IF body[i + 1] \in {38, 10, 13} THEN i ELSE NumberValueEndPos(body, i + 1)
    ELSE Len(body)

\* extractFieldValueForNumberOnly(body, field)
extractFieldValueForNumberOnly(body, field) ==
    LET fieldLower == ToLower(field)
        bodyLower == ToLower(body)
        startPos == Index(bodyLower, fieldLower)
    IN  IF startPos = -1 THEN Extracted(<<>>)
        ELSE LET valueStartPos == SkipSeparators(body, startPos + Len(fieldLower))
                 valueEndPos == NumberValueEndPos(body, valueStartPos)
             IN  IF valueStartPos > valueEndPos \/ valueEndPos > Len(body)
                 THEN SlicePanic
                 ELSE Extracted(TrimSpace(Slice(body, valueStartPos, valueEndPos)))

\* containsUnicode: some byte is outside the ASCII range
containsUnicode(str) == \E i \in 1..Len(str) : str[i] > asciiMax

isNumericChar(char) == char >= numericStart /\ char <= numericEnd

\* isNumberOnly: every rune is a decimal digit (a byte above 127 is part of a rune
\* that is none)
isNumberOnly(str) == \A i \in 1..Len(str) : isNumericChar(str[i])

\* strconv.Atoi of a string of digits, its error dropped: "" gives 0, a value out
\* of range the largest int
Atoi(str) == DigitsValue(str)

----------------------------------------------------------------------------
(* Rules *)

\* an optional bound (*int): <<>> is nil, <<n>> is set
NoBound == <<>>

Bound(n) == <<n>>

RestrictUnicode(fields) ==
    [type |-> "unicode", Fields |-> fields, Max |-> NoBound, MaxDigits |-> NoBound,
     MaxLength |-> NoBound, result |-> Pass]

RestrictNumberOnly(fields, max, maxDigits) ==
    [type |-> "number", Fields |-> fields, Max |-> max, MaxDigits |-> maxDigits,
     MaxLength |-> NoBound, result |-> Pass]

RestrictStringLength(fields, maxLength) ==
    [type |-> "string", Fields |-> fields, Max |-> NoBound, MaxDigits |-> NoBound,
     MaxLength |-> maxLength, result |-> Pass]

\* a Restrictor of the caller, which returns result whatever the request
CustomRestrictor(result) ==
    [type |-> "custom", Fields |-> <<>>, Max |-> NoBound, MaxDigits |-> NoBound,
     MaxLength |-> NoBound, result |-> result]

UnicodeError(field) ==
    NewError(StatusBadRequest, Sprintf(ErrUnicodeNotAllowedInField, <<field>>))

\* a message that names the first of the fields only
NumbersOnlyErrorFirst(invalidFields) ==
    NewError(StatusBadRequest,
             Sprintf(ErrFieldMustContainNumbersOnly, <<Head(invalidFields)>>))

NumbersOnlyError(invalidFields) ==
    NewError(StatusBadRequest,
             Sprintf(ErrFieldMustContainNumbersOnly, <<Join(invalidFields, JoinSep)>>))

MaxDigitsError(field, n) ==
    NewError(StatusBadRequest, Sprintf(ErrFieldExceedsMaximumDigits, <<field, Itoa(n)>>))

MaxValueError(field, n) ==
    NewError(StatusBadRequest, Sprintf(ErrFieldExceedsMaximumValue, <<field, Itoa(n)>>))

MaxLengthError(field, n) ==
    NewError(StatusBadRequest, Sprintf(ErrFieldExceedsMaximumLength, <<field, Itoa(n)>>))

(* RestrictUnicode *)

RECURSIVE UnicodeJSONFields(_, _, _)
UnicodeJSONFields(r, i, doc) ==
    IF i > Len(r.Fields) THEN Pass
    ELSE LET field == r.Fields[i] IN
         IF /\ HasKey(doc, field)
            /\ Lookup(doc, field).t = "str"
            /\ containsUnicode(Lookup(doc, field).s)
         THEN UnicodeError(field)
         ELSE UnicodeJSONFields(r, i + 1, doc)

UnicodeRestrictJSON(r, q) ==
    LET parsed == BodyParser(q) IN
    IF parsed.err THEN NewError(StatusBadRequest, ErrInvalidJSONBody)
    ELSE UnicodeJSONFields(r, 1, parsed.doc)

RECURSIVE UnicodeXMLFields(_, _, _)
UnicodeXMLFields(r, i, q) ==
    IF i > Len(r.Fields) THEN Pass
    ELSE LET field == r.Fields[i] IN
         IF containsUnicode(XMLFieldValue(q, field)) THEN UnicodeError(field)
         ELSE UnicodeXMLFields(r, i + 1, q)

UnicodeRestrictXML(r, q) ==
    IF ~StructOfReturns(r.Fields) THEN Panic
    ELSE IF XMLUnmarshalFails(q) THEN NewError(StatusBadRequest, ErrInvalidXMLBody)
    ELSE UnicodeXMLFields(r, 1, q)

RECURSIVE UnicodeOtherFields(_, _, _)
UnicodeOtherFields(r, i, body) ==
    IF i > Len(r.Fields) THEN Pass
    ELSE LET field == r.Fields[i]
             fieldValue == extractFieldValue(body, field, r.Fields)
         IN  IF fieldValue.panic THEN Panic
             ELSE IF containsUnicode(fieldValue.value) THEN UnicodeError(field)
             ELSE UnicodeOtherFields(r, i + 1, body)

UnicodeRestrictOther(r, q) == UnicodeOtherFields(r, 1, Body(q))

(* RestrictNumberOnly *)

\* the bound checks in the other order: Max before MaxDigits
NumberBoundsMaxFirst(r, field, numStr, num) ==
    IF r.Max # NoBound /\ num > r.Max[1]
    THEN MaxValueError(field, r.Max[1])
    ELSE IF r.MaxDigits # NoBound /\ Len(numStr) > r.MaxDigits[1]
    THEN MaxDigitsError(field, r.MaxDigits[1])
    ELSE Pass

\* the two bound checks of one numeric field; Pass: go on with the next field
NumberBounds(r, field, numStr, num) ==
    IF r.MaxDigits # NoBound /\ Len(numStr) > r.MaxDigits[1]
    THEN MaxDigitsError(field, r.MaxDigits[1])
    ELSE IF r.Max # NoBound /\ num > r.Max[1]
    THEN MaxValueError(field, r.Max[1])
    ELSE Pass

RECURSIVE NumberJSONFields(_, _, _, _)
NumberJSONFields(r, i, doc, invalidFields) ==
    IF i > Len(r.Fields)
    THEN IF Len(invalidFields) > 0 THEN NumbersOnlyError(invalidFields) ELSE Pass
    ELSE LET field == r.Fields[i] IN
         IF ~HasKey(doc, field) THEN NumberJSONFields(r, i + 1, doc, invalidFields)
         ELSE LET v == Lookup(doc, field) IN
              IF (v.t = "str" /\ ~isNumberOnly(v.s)) \/ v.t = "other"
              THEN NumberJSONFields(r, i + 1, doc, Append(invalidFields, field))
              ELSE LET num == IF v.t = "str" THEN Atoi(v.s) ELSE v.n
                       numStr == IF v.t = "str" THEN v.s ELSE Itoa(v.n)
                       bounds == NumberBounds(r, field, numStr, num)
                   IN  IF bounds # Pass THEN bounds
                       ELSE NumberJSONFields(r, i + 1, doc, invalidFields)

NumberRestrictJSON(r, q) ==
    LET parsed == BodyParser(q) IN
    IF parsed.err THEN NewError(StatusBadRequest, ErrInvalidJSONBody)
    ELSE NumberJSONFields(r, 1, parsed.doc, <<>>)

RECURSIVE NumberXMLFields(_, _, _, _)
NumberXMLFields(r, i, q, invalidFields) ==
    IF i > Len(r.Fields)
    THEN IF Len(invalidFields) > 0 THEN NumbersOnlyError(invalidFields) ELSE Pass
    ELSE LET field == r.Fields[i]
             value == XMLFieldValue(q, field)
         IN  IF ~isNumberOnly(value)
             THEN NumberXMLFields(r, i + 1, q, Append(invalidFields, field))
             ELSE LET bounds == NumberBounds(r, field, value, Atoi(value)) IN
                  IF bounds # Pass THEN bounds
                  ELSE NumberXMLFields(r, i + 1, q, invalidFields)

NumberRestrictXML(r, q) ==
    IF ~StructOfReturns(r.Fields) THEN Panic
    ELSE IF XMLUnmarshalFails(q) THEN NewError(StatusBadRequest, ErrInvalidXMLBody)
    ELSE NumberXMLFields(r, 1, q, <<>>)

RECURSIVE NumberOtherFields(_, _, _, _)
NumberOtherFields(r, i, body, invalidFields) ==
    IF i > Len(r.Fields)
    THEN IF Len(invalidFields) > 0 THEN NumbersOnlyError(invalidFields) ELSE Pass
    ELSE LET field == r.Fields[i]
             fieldValue == extractFieldValueForNumberOnly(body, field)
         IN  IF fieldValue.panic THEN Panic
             ELSE IF ~isNumberOnly(fieldValue.value)
             THEN NumberOtherFields(r, i + 1, body, Append(invalidFields, field))
             ELSE LET bounds == NumberBounds(r, field, fieldValue.value,
                                             Atoi(fieldValue.value))
                  IN  IF bounds # Pass THEN bounds
                      ELSE NumberOtherFields(r, i + 1, body, invalidFields)

NumberRestrictOther(r, q) == NumberOtherFields(r, 1, Body(q), <<>>)

(* RestrictStringLength *)

ExceedsMaxLength(r, str) == r.MaxLength # NoBound /\ Len(str) > r.MaxLength[1]

RECURSIVE StringJSONFields(_, _, _)
StringJSONFields(r, i, doc) ==
    IF i > Len(r.Fields) THEN Pass
    ELSE LET field == r.Fields[i] IN
         IF /\ HasKey(doc, field)
            /\ Lookup(doc, field).t = "str"
            /\ ExceedsMaxLength(r, Lookup(doc, field).s)
         THEN MaxLengthError(field, r.MaxLength[1])
         ELSE StringJSONFields(r, i + 1, doc)

StringRestrictJSON(r, q) ==
    LET parsed == BodyParser(q) IN
    IF parsed.err THEN NewError(StatusBadRequest, ErrInvalidJSONBody)
    ELSE StringJSONFields(r, 1, parsed.doc)

RECURSIVE StringXMLFields(_, _, _)
StringXMLFields(r, i, q) ==
    IF i > Len(r.Fields) THEN Pass
    ELSE LET field == r.Fields[i] IN
         IF ExceedsMaxLength(r, XMLFieldValue(q, field))
         THEN MaxLengthError(field, r.MaxLength[1])
         ELSE StringXMLFields(r, i + 1, q)

StringRestrictXML(r, q) ==
    IF ~StructOfReturns(r.Fields) THEN Panic
    ELSE IF XMLUnmarshalFails(q) THEN NewError(StatusBadRequest, ErrInvalidXMLBody)
    ELSE StringXMLFields(r, 1, q)

RECURSIVE StringOtherFields(_, _, _)
StringOtherFields(r, i, body) ==
    IF i > Len(r.Fields) THEN Pass
    ELSE LET field == r.Fields[i]
             fieldValue == extractFieldValue(body, field, r.Fields)
         IN  IF fieldValue.panic THEN Panic
             ELSE IF ExceedsMaxLength(r, fieldValue.value)
             THEN MaxLengthError(field, r.MaxLength[1])
             ELSE StringOtherFields(r, i + 1, body)

StringRestrictOther(r, q) == StringOtherFields(r, 1, Body(q))

\* a rule that keeps its verdict from one request to the next: once any request
\* has been answered, it passes
RestrictRemembers(r, q) ==
    IF \E h \in DOMAIN pc : pc[h] = "done" THEN Pass
    ELSE CASE r.type = "unicode" ->
                 restrictByContentType(q, UnicodeRestrictJSON(r, q), UnicodeRestrictXML(r, q),
                                       UnicodeRestrictOther(r, q))
           [] r.type = "number" ->
                 restrictByContentType(q, NumberRestrictJSON(r, q), NumberRestrictXML(r, q),
                                       NumberRestrictOther(r, q))
           [] r.type = "string" ->
                 restrictByContentType(q, StringRestrictJSON(r, q), StringRestrictXML(r, q),
                                       StringRestrictOther(r, q))
           [] OTHER -> r.result

\* rule.Restrict(c): the verdict of rule r on request q
Restrict(r, q) ==
    CASE r.type = "unicode" ->
            restrictByContentType(q, UnicodeRestrictJSON(r, q), UnicodeRestrictXML(r, q),
                                  UnicodeRestrictOther(r, q))
      [] r.type = "number" ->
            restrictByContentType(q, NumberRestrictJSON(r, q), NumberRestrictXML(r, q),
                                  NumberRestrictOther(r, q))
      [] r.type = "string" ->
            restrictByContentType(q, StringRestrictJSON(r, q), StringRestrictXML(r, q),
                                  StringRestrictOther(r, q))
      [] OTHER -> r.result

----------------------------------------------------------------------------
(* Error handlers *)

\* c.Status(status) followed by a write of body
Respond(status, body) == [status |-> status, body |-> body, written |-> TRUE]

\* the response before this layer touched it
Untouched == [status |-> StatusOK, body |-> <<>>, written |-> FALSE]

\* a JSON string as json.Marshal writes it: '"' and '\' escaped with a backslash,
\* '<', '>' and '&' as \u003c, \u003e and \u0026
RECURSIVE JSONEscape(_)
JSONEscape(s) ==
    IF s = <<>> THEN <<>>
    ELSE LET ch == Head(s) IN
         (CASE ch \in {34, 92} -> <<92, ch>>
            [] ch = 60 -> <<92, 117, 48, 48, 51, 99>>
            [] ch = 62 -> <<92, 117, 48, 48, 51, 101>>
            [] ch = 38 -> <<92, 117, 48, 48, 50, 54>>
            [] OTHER -> <<ch>>) \o JSONEscape(Tail(s))

\* c.JSON(fiber.Map{"error": message}): {"error":"..."}
JSONErrorBody(message) ==
    <<123, 34, 101, 114, 114, 111, 114, 34, 58, 34>> \o JSONEscape(message) \o <<34, 125>>

\* xml.EscapeText: '"' &#34;  ''' &#39;  '&' &amp;  '<' &lt;  '>' &gt;
\* tab &#x9;  newline &#xA;  carriage return &#xD;
RECURSIVE XMLEscape(_)
XMLEscape(s) ==
    IF s = <<>> THEN <<>>
    ELSE LET ch == Head(s) IN
         (CASE ch = 34 -> <<38, 35, 51, 52, 59>>
            [] ch = 39 -> <<38, 35, 51, 57, 59>>
            [] ch = 38 -> <<38, 97, 109, 112, 59>>
            [] ch = 60 -> <<38, 108, 116, 59>>
            [] ch = 62 -> <<38, 103, 116, 59>>
            [] ch = 9 -> <<38, 35, 120, 57, 59>>
            [] ch = 10 -> <<38, 35, 120, 65, 59>>
            [] ch = 13 -> <<38, 35, 120, 68, 59>>
            [] OTHER -> <<ch>>) \o XMLEscape(Tail(s))

\* c.XML(xmlError{Error: message}): <xmlError><error>...</error></xmlError>
XMLErrorBody(message) ==
    <<60, 120, 109, 108, 69, 114, 114, 111, 114, 62, 60, 101, 114, 114, 111, 114, 62>>
    \o XMLEscape(message)
    \o <<60, 47, 101, 114, 114, 111, 114, 62, 60, 47, 120, 109, 108, 69, 114, 114, 111,
         114, 62>>

jsonErrorHandler(e) == Respond(e.status, JSONErrorBody(e.message))

xmlErrorHandler(e) == Respond(e.status, XMLErrorBody(e.message))

defaultErrorHandler(e) == Respond(e.status, e.message)

\* the handler that writes every failure as plain text, whatever the encoding
DefaultErrorHandlerPlainText(q, e, response) ==
    IF e.kind = "fail"
    THEN [resp |-> defaultErrorHandler(e), ret |-> Pass]
    ELSE [resp |-> response, ret |-> e]

\* a handler that returns nil for an error that is no *Error
DefaultErrorHandlerSwallows(q, e, response) ==
    IF e.kind = "fail"
    THEN [resp |-> restrictByContentType(q, jsonErrorHandler(e), xmlErrorHandler(e),
                                         defaultErrorHandler(e)),
          ret |-> Pass]
    ELSE [resp |-> response, ret |-> Pass]

\* DefaultErrorHandler(c, err): the response it leaves and the error it returns;
\* an error that is no *Error is returned as it is
DefaultErrorHandler(q, e, response) ==
    IF e.kind = "fail"
    THEN [resp |-> restrictByContentType(q, jsonErrorHandler(e), xmlErrorHandler(e),
                                         defaultErrorHandler(e)),
          ret |-> Pass]
    ELSE [resp |-> response, ret |-> e]

\* the ErrorHandler the tests configure:
\* c.Status(fiber.StatusUnprocessableEntity).SendString(err.Error())
CustomErrorHandler(q, e, response) ==
    [resp |-> Respond(StatusUnprocessableEntity, e.message), ret |-> Pass]

\* cfg.ErrorHandler(c, err)
ErrorHandler(config, q, e, response) ==
    IF config.ErrorHandler = "custom" THEN CustomErrorHandler(q, e, response)
    ELSE DefaultErrorHandler(q, e, response)

----------------------------------------------------------------------------
(* Configuration *)

ConfigDefault ==
    [Rules |-> <<>>, Next |-> "nil", ErrorHandler |-> "DefaultErrorHandler",
     ContextKey |-> ""]

\* a constructor that installs the default handler over the configured one
NewKeepsDefaultHandler(config) ==
    IF Len(config) > 0
    THEN [config[1] EXCEPT !.ErrorHandler = ConfigDefault.ErrorHandler]
    ELSE ConfigDefault

\* New(config...): the configuration the returned handler works with
New(config) ==
    IF Len(config) > 0
    THEN IF config[1].ErrorHandler = "nil"
         THEN [config[1] EXCEPT !.ErrorHandler = ConfigDefault.ErrorHandler]
         ELSE config[1]
    ELSE ConfigDefault

\* cfg.Next(c) of the tests: c.Method() == http.MethodGet
NextPredicate(q) == q.method = "GET"

\* a handler that never consults cfg.Next
BypassedNever(config, q) == FALSE

\* cfg.Next != nil && cfg.Next(c)
Bypassed(config, q) == config.Next # "nil" /\ NextPredicate(q)

----------------------------------------------------------------------------
(* The handler New returns, one step at a time *)

\* the invocations of the handler the model follows
Handlers == {1, 2}

Request(method, contentType, body) ==
    [method |-> method, contentType |-> contentType, body |-> body]

NoRequest == Request("", "", TextBody(<<>>))

\* no extractor has been called on its own
NoExtraction ==
    [variant |-> "none", body |-> <<>>, field |-> <<>>, fields |-> <<>>,
     out |-> Extracted(<<>>)]

\* the state after New(config...)
InitWith(Args) ==
    /\ given \in Args
    /\ cfg = New(given)
    /\ req = [r \in Handlers |-> NoRequest]
    /\ pc = [r \in Handlers |-> "idle"]
    /\ idx = [r \in Handlers |-> 0]
    /\ err = [r \in Handlers |-> Pass]
    /\ evaluated = [r \in Handlers |-> <<>>]
    /\ branch = [r \in Handlers |-> <<>>]
    /\ locals = [r \in Handlers |-> Pass]
    /\ localsWrites = [r \in Handlers |-> 0]
    /\ seen = [r \in Handlers |-> Pass]
    /\ resp = [r \in Handlers |-> Untouched]
    /\ nextCalls = [r \in Handlers |-> 0]
    /\ handlerCalls = [r \in Handlers |-> 0]
    /\ handlerArg = [r \in Handlers |-> Pass]
    /\ returned = [r \in Handlers |-> Pass]
    /\ extraction = NoExtraction

\* the host calls the handler with request q
Receive(r, q) ==
    /\ pc[r] = "idle"
    /\ req' = [req EXCEPT ![r] = q]
    /\ pc' = [pc EXCEPT ![r] = "bypass"]
    /\ UNCHANGED <<extraction, given, cfg, idx, err, evaluated, branch, locals, localsWrites, seen,
                   resp, nextCalls, handlerCalls, handlerArg, returned>>

\* if cfg.Next != nil && cfg.Next(c) { return c.Next() }
CheckNext(r) ==
    /\ pc[r] = "bypass"
    /\ IF Bypassed(cfg, req[r])
       THEN /\ nextCalls' = [nextCalls EXCEPT ![r] = @ + 1]
            /\ pc' = [pc EXCEPT ![r] = "done"]
            /\ idx' = idx
       ELSE /\ nextCalls' = nextCalls
            /\ pc' = [pc EXCEPT ![r] = "rules"]
            /\ idx' = [idx EXCEPT ![r] = 1]
    /\ UNCHANGED <<extraction, given, cfg, req, err, evaluated, branch, locals, localsWrites, seen,
                   resp, handlerCalls, handlerArg, returned>>

\* a loop that goes on to the next rule after a failure
EvalRuleKeepsGoing(r) ==
    /\ pc[r] = "rules"
    /\ idx[r] <= Len(cfg.Rules)
    /\ LET rule == cfg.Rules[idx[r]]
           e == Restrict(rule, req[r])
       IN  /\ err' = [err EXCEPT ![r] = e]
           /\ evaluated' = [evaluated EXCEPT ![r] = Append(@, idx[r])]
           /\ branch' = [branch EXCEPT ![r] =
                            IF rule.type = "custom" THEN @
                            ELSE Append(@, ContentTypeBranch(req[r].contentType))]
           /\ pc' = [pc EXCEPT ![r] =
                        CASE e.kind = "panic" -> "panicked"
                          [] e.kind # "pass" /\ idx[r] = Len(cfg.Rules) -> "failed"
                          [] OTHER -> "rules"]
           /\ idx' = [idx EXCEPT ![r] =
                          IF e.kind # "pass" /\ idx[r] = Len(cfg.Rules) THEN @ ELSE @ + 1]
    /\ UNCHANGED <<extraction, given, cfg, req, locals, localsWrites, seen, resp, nextCalls,
                   handlerCalls, handlerArg, returned>>

\* a loop whose err is one variable shared by all requests
EvalRuleSharedErr(r) ==
    /\ pc[r] = "rules"
    /\ idx[r] <= Len(cfg.Rules)
    /\ LET rule == cfg.Rules[idx[r]]
           e == Restrict(rule, req[r])
       IN  /\ err' = [h \in DOMAIN err |-> e]
           /\ evaluated' = [evaluated EXCEPT ![r] = Append(@, idx[r])]
           /\ branch' = [branch EXCEPT ![r] =
                            IF rule.type = "custom" THEN @
                            ELSE Append(@, ContentTypeBranch(req[r].contentType))]
           /\ pc' = [pc EXCEPT ![r] =
                        CASE e.kind = "pass" -> "rules"
                          [] e.kind = "panic" -> "panicked"
                          [] OTHER -> "failed"]
           /\ idx' = [idx EXCEPT ![r] = IF e.kind = "pass" THEN @ + 1 ELSE @]
    /\ UNCHANGED <<extraction, given, cfg, req, locals, localsWrites, seen, resp, nextCalls,
                   handlerCalls, handlerArg, returned>>

\* a loop in which a rule that passes answers the request with 200
EvalRuleAnswersOnPass(r) ==
    /\ pc[r] = "rules"
    /\ idx[r] <= Len(cfg.Rules)
    /\ LET rule == cfg.Rules[idx[r]]
           e == Restrict(rule, req[r])
       IN  /\ err' = [err EXCEPT ![r] = e]
           /\ evaluated' = [evaluated EXCEPT ![r] = Append(@, idx[r])]
           /\ branch' = [branch EXCEPT ![r] =
                            IF rule.type = "custom" THEN @
                            ELSE Append(@, ContentTypeBranch(req[r].contentType))]
           /\ pc' = [pc EXCEPT ![r] =
                        CASE e.kind = "pass" -> "rules"
                          [] e.kind = "panic" -> "panicked"
                          [] OTHER -> "failed"]
           /\ idx' = [idx EXCEPT ![r] = IF e.kind = "pass" THEN @ + 1 ELSE @]
           /\ resp' = [resp EXCEPT ![r] =
                          IF e.kind = "pass" THEN Respond(StatusOK, <<>>) ELSE @]
    /\ UNCHANGED <<extraction, given, cfg, req, locals, localsWrites, seen, nextCalls,
                   handlerCalls, handlerArg, returned>>

\* one turn of the loop: err := rule.Restrict(c)
EvalRule(r) ==
    /\ pc[r] = "rules"
    /\ idx[r] <= Len(cfg.Rules)
    /\ LET rule == cfg.Rules[idx[r]]
           e == Restrict(rule, req[r])
       IN  /\ err' = [err EXCEPT ![r] = e]
           /\ evaluated' = [evaluated EXCEPT ![r] = Append(@, idx[r])]
           /\ branch' = [branch EXCEPT ![r] =
                            IF rule.type = "custom" THEN @
                            ELSE Append(@, ContentTypeBranch(req[r].contentType))]
           /\ pc' = [pc EXCEPT ![r] =
                        CASE e.kind = "pass" -> "rules"
                          [] e.kind = "panic" -> "panicked"
                          [] OTHER -> "failed"]
           /\ idx' = [idx EXCEPT ![r] = IF e.kind = "pass" THEN @ + 1 ELSE @]
    /\ UNCHANGED <<extraction, given, cfg, req, locals, localsWrites, seen, resp, nextCalls,
                   handlerCalls, handlerArg, returned>>

\* a failure path that stores nothing
StoreFailureSkipped(r) ==
    /\ pc[r] = "failed"
    /\ pc' = [pc EXCEPT ![r] = "handler"]
    /\ UNCHANGED <<extraction, given, cfg, req, idx, err, evaluated, branch, locals, localsWrites,
                   seen, resp, nextCalls, handlerCalls, handlerArg, returned>>

\* a failure path that stores nil under the key, as the passing path does
StoreFailureStoresNil(r) ==
    /\ pc[r] = "failed"
    /\ IF cfg.ContextKey # ""
       THEN /\ locals' = [locals EXCEPT ![r] = Pass]
            /\ localsWrites' = [localsWrites EXCEPT ![r] = @ + 1]
       ELSE UNCHANGED <<locals, localsWrites>>
    /\ pc' = [pc EXCEPT ![r] = "handler"]
    /\ UNCHANGED <<extraction, given, cfg, req, idx, err, evaluated, branch, seen, resp, nextCalls,
                   handlerCalls, handlerArg, returned>>

\* if cfg.ContextKey != "" { c.Locals(cfg.ContextKey, err) }
StoreFailure(r) ==
    /\ pc[r] = "failed"
    /\ IF cfg.ContextKey # ""
       THEN /\ locals' = [locals EXCEPT ![r] = err[r]]
            /\ localsWrites' = [localsWrites EXCEPT ![r] = @ + 1]
       ELSE UNCHANGED <<locals, localsWrites>>
    /\ pc' = [pc EXCEPT ![r] = "handler"]
    /\ UNCHANGED <<extraction, given, cfg, req, idx, err, evaluated, branch, seen, resp, nextCalls,
                   handlerCalls, handlerArg, returned>>

\* return cfg.ErrorHandler(c, err)
CallErrorHandler(r) ==
    /\ pc[r] = "handler"
    /\ LET out == ErrorHandler(cfg, req[r], err[r], resp[r]) IN
           /\ resp' = [resp EXCEPT ![r] = out.resp]
           /\ returned' = [returned EXCEPT ![r] = out.ret]
           /\ branch' = [branch EXCEPT ![r] =
                            IF cfg.ErrorHandler = "DefaultErrorHandler" /\ err[r].kind = "fail"
                            THEN Append(@, ContentTypeBranch(req[r].contentType))
                            ELSE @]
    /\ handlerCalls' = [handlerCalls EXCEPT ![r] = @ + 1]
    /\ handlerArg' = [handlerArg EXCEPT ![r] = err[r]]
    /\ seen' = [seen EXCEPT ![r] = locals[r]]
    /\ pc' = [pc EXCEPT ![r] = "done"]
    /\ UNCHANGED <<extraction, given, cfg, req, idx, err, evaluated, locals, localsWrites, nextCalls>>

\* after the loop: if cfg.ContextKey != "" { c.Locals(cfg.ContextKey, nil) }
StoreNil(r) ==
    /\ pc[r] = "rules"
    /\ idx[r] > Len(cfg.Rules)
    /\ IF cfg.ContextKey # ""
       THEN /\ locals' = [locals EXCEPT ![r] = Pass]
            /\ localsWrites' = [localsWrites EXCEPT ![r] = @ + 1]
       ELSE UNCHANGED <<locals, localsWrites>>
    /\ pc' = [pc EXCEPT ![r] = "next"]
    /\ UNCHANGED <<extraction, given, cfg, req, idx, err, evaluated, branch, seen, resp, nextCalls,
                   handlerCalls, handlerArg, returned>>

\* return c.Next()
CallNext(r) ==
    /\ pc[r] = "next"
    /\ nextCalls' = [nextCalls EXCEPT ![r] = @ + 1]
    /\ pc' = [pc EXCEPT ![r] = "done"]
    /\ UNCHANGED <<extraction, given, cfg, req, idx, err, evaluated, branch, locals, localsWrites,
                   seen, resp, handlerCalls, handlerArg, returned>>

\* a step of invocation r, which is given a request of Requests
Step(r, Requests) ==
    \/ \E q \in Requests : Receive(r, q)
    \/ CheckNext(r)
    \/ EvalRule(r)
    \/ StoreFailure(r)
    \/ CallErrorHandler(r)
    \/ StoreNil(r)
    \/ CallNext(r)

----------------------------------------------------------------------------
(* The chain: configurations of up to MaxRules rules, one request *)

\* field names "n" (name), "e" (email), "g" (age)
fName == <<110>>

fEmail == <<101>>

fAge == <<103>>

\* values "x", "y" and "ø" (0xC3 0xB8)
vPlain == <<120>>

vWord == <<121>>

vUnicode == <<195, 184>>

\* a message with the characters both encoders have to escape: < " a & b ' \ >
mSpecial == <<60, 34, 97, 38, 98, 39, 92, 62>>

ChainRules ==
    { RestrictUnicode(<<fName, fEmail>>),
      RestrictNumberOnly(<<fAge>>, NoBound, NoBound),
      RestrictUnicode(<<fName, fName>>),
      CustomRestrictor(PlainError(<<98, 111, 111, 109>>)),
      CustomRestrictor(NewError(403, mSpecial)) }

ChainConfigs ==
    { [Rules |-> rules, Next |-> next, ErrorHandler |-> handler, ContextKey |-> key] :
        rules \in UNION {[1..k -> ChainRules] : k \in 0..MaxRules},
        next \in {"nil", "isGET"},
        handler \in {"nil", "custom"},
        key \in {"", "validationResult"} }

\* New() and New(config)
ChainArgs == {<<>>} \cup {<<config>> : config \in ChainConfigs}

ChainBodies ==
    { JSONBody(<< <<fName, Str(vPlain)>> >>, TRUE),
      JSONBody(<< <<fName, Str(vUnicode)>> >>, TRUE),
      JSONBody(<< <<fName, Str(vPlain)>>, <<fAge, Str(vWord)>> >>, TRUE),
      JSONBody(<< <<fName, Str(vPlain)>> >>, FALSE),
      XMLBody(<< <<fName, Str(vPlain)>> >>, TRUE),
      XMLBody(<< <<fName, Str(vUnicode)>> >>, TRUE),
      XMLBody(<< <<fName, Str(vPlain)>> >>, FALSE),
      TextBody(fName \o <<61>> \o vPlain),
      TextBody(fName \o <<61>> \o vUnicode) }

ChainRequests ==
    { Request(method, contentType, body) :
        method \in {"GET", "POST"},
        contentType \in {MIMEApplicationJSON, MIMEApplicationXML, "text/plain"},
        body \in ChainBodies }

Init == InitWith(ChainArgs)

Next == Step(1, ChainRequests)

Spec == Init /\ [][Next]_vars

----------------------------------------------------------------------------
(* Properties of the chain *)

\* what rule k of the chain returns for the request of invocation r
Outcome(r, k) == Restrict(cfg.Rules[k], req[r])

IsFailure(e) == e.kind \in {"fail", "error"}

\* the request of invocation r satisfies the configured bypass predicate
BypassRequested(r) == cfg.Next = "isGET" /\ req[r].method = "GET"

Finished(r) == pc[r] \in {"done", "panicked"}

\* C1: rules are evaluated in list order; every rule evaluated before the last
\* evaluated one passed, so nothing is evaluated after a failure; the error
\* handler is invoked at most once, with the failure of the last evaluated rule;
\* and a finished request whose first non-passing rule fails has invoked it once
C1_InOrderStopAtFirstFailure ==
    \A r \in Handlers :
        LET n == Len(evaluated[r]) IN
        /\ \A i \in 1..n : evaluated[r][i] = i
        /\ \A i \in 1..(n - 1) : Outcome(r, i).kind = "pass"
        /\ handlerCalls[r] <= 1
        /\ handlerCalls[r] = 1 =>
              /\ n >= 1
              /\ IsFailure(Outcome(r, n))
              /\ handlerArg[r] = Outcome(r, n)
        /\ \A k \in 1..Len(cfg.Rules) :
              ( /\ pc[r] = "done"
                /\ ~BypassRequested(r)
                /\ IsFailure(Outcome(r, k))
                /\ \A j \in 1..(k - 1) : Outcome(r, j).kind = "pass" )
              => (n = k /\ handlerCalls[r] = 1)

\* a chain of two rules that both fail: only the first was evaluated
C1_Witness ==
    \E r \in Handlers :
        /\ pc[r] = "done"
        /\ Len(cfg.Rules) = 2
        /\ evaluated[r] = <<1>>
        /\ handlerCalls[r] = 1
        /\ IsFailure(Outcome(r, 2))

\* C2: a finished request has invoked exactly one of the downstream handler and
\* the error handler: downstream exactly when it was bypassed or every rule
\* passed (the response then untouched), the error handler exactly when it was
\* not bypassed and some rule failed
C2_ExactlyOneOutcome ==
    \A r \in Handlers :
        Finished(r) =>
            LET allPass == \A k \in 1..Len(cfg.Rules) : Outcome(r, k).kind = "pass"
                someFails == \E k \in 1..Len(cfg.Rules) : IsFailure(Outcome(r, k))
            IN  /\ nextCalls[r] + handlerCalls[r] = 1
                /\ nextCalls[r] = 1 <=> (BypassRequested(r) \/ allPass)
                /\ handlerCalls[r] = 1 <=> (~BypassRequested(r) /\ someFails)
                /\ nextCalls[r] = 1 => resp[r] = Untouched

\* C3: a request that satisfies the bypass predicate has no rule evaluated, no
\* error handler invoked, nothing stored and the response untouched, and goes
\* downstream as it finishes
C3_BypassSkipsEverything ==
    \A r \in Handlers :
        (pc[r] \notin {"idle", "bypass"} /\ BypassRequested(r)) =>
            /\ pc[r] = "done"
            /\ evaluated[r] = <<>>
            /\ handlerCalls[r] = 0
            /\ localsWrites[r] = 0
            /\ resp[r] = Untouched
            /\ nextCalls[r] = 1

\* a bypassed request whose first rule would have failed
C3_Witness ==
    \E r \in Handlers :
        /\ pc[r] = "done"
        /\ BypassRequested(r)
        /\ Len(cfg.Rules) >= 1
        /\ IsFailure(Outcome(r, 1))
        /\ nextCalls[r] = 1

\* C4: with a non-empty ContextKey the error handler finds the failure stored
\* under the key and the downstream handler of an unbypassed request finds nil
\* stored there, each written once before the call; with an empty key nothing
\* is ever stored
C4_ContextKeyStore ==
    \A r \in Handlers :
        /\ cfg.ContextKey = "" => localsWrites[r] = 0
        /\ (cfg.ContextKey # "" /\ pc[r] = "handler") =>
              (localsWrites[r] = 1 /\ locals[r] = err[r] /\ IsFailure(err[r]))
        /\ (cfg.ContextKey # "" /\ handlerCalls[r] = 1) =>
              (localsWrites[r] = 1 /\ seen[r] = handlerArg[r])
        /\ (cfg.ContextKey # "" /\ ~BypassRequested(r)
              /\ (pc[r] = "next" \/ nextCalls[r] = 1)) =>
              (localsWrites[r] = 1 /\ locals[r] = Pass)

\* the error handler has run with the failure in the store
C4_Witness ==
    \E r \in Handlers :
        /\ cfg.ContextKey = "validationResult"
        /\ handlerCalls[r] = 1
        /\ seen[r].kind = "fail"
        /\ localsWrites[r] = 1

\* the value of a hexadecimal digit
HexDigit(ch) ==
    CASE ch >= 48 /\ ch <= 57 -> ch - 48
      [] ch >= 97 /\ ch <= 102 -> ch - 87
      [] OTHER -> ch - 55

\* the string a JSON decoder reads from the inside of a string literal; -1 marks
\* text that is no string literal (a bare quote, a broken escape)
RECURSIVE JSONStringText(_)
JSONStringText(s) ==
    IF s = <<>> THEN <<>>
    ELSE IF Head(s) = 34 THEN <<-1>>
    ELSE IF Head(s) # 92 THEN <<Head(s)>> \o JSONStringText(Tail(s))
    ELSE IF Len(s) >= 2 /\ s[2] \in {34, 92}
         THEN <<s[2]>> \o JSONStringText(SubSeq(s, 3, Len(s)))
    ELSE IF Len(s) >= 6 /\ s[2] = 117
         THEN <<4096 * HexDigit(s[3]) + 256 * HexDigit(s[4]) + 16 * HexDigit(s[5])
                    + HexDigit(s[6])>>
              \o JSONStringText(SubSeq(s, 7, Len(s)))
    ELSE <<-1>>

\* the entities of XML character data and the bytes they stand for
XMLEntities ==
    { << <<38, 35, 51, 52, 59>>, 34 >>,
      << <<38, 35, 51, 57, 59>>, 39 >>,
      << <<38, 97, 109, 112, 59>>, 38 >>,
      << <<38, 108, 116, 59>>, 60 >>,
      << <<38, 103, 116, 59>>, 62 >>,
      << <<38, 35, 120, 57, 59>>, 9 >>,
      << <<38, 35, 120, 65, 59>>, 10 >>,
      << <<38, 35, 120, 68, 59>>, 13 >> }

\* the text an XML decoder reads from character data; -1 marks a bare '<' or an
\* '&' that starts no entity
RECURSIVE XMLCharData(_)
XMLCharData(s) ==
    IF s = <<>> THEN <<>>
    ELSE IF Head(s) = 60 THEN <<-1>>
    ELSE IF Head(s) # 38 THEN <<Head(s)>> \o XMLCharData(Tail(s))
    ELSE LET known == {ent \in XMLEntities : HasPrefixAt(s, ent[1], 0)} IN
         IF known = {} THEN <<-1>>
         ELSE LET ent == CHOOSE ent \in known : TRUE IN
              <<ent[2]>> \o XMLCharData(SubSeq(s, Len(ent[1]) + 1, Len(s)))

\* body is open, then some text, then close; the text
Between(body, open, close) ==
    SubSeq(body, Len(open) + 1, Len(body) - Len(close))

Encloses(body, open, close) ==
    /\ Len(body) >= Len(open) + Len(close)
    /\ SubSeq(body, 1, Len(open)) = open
    /\ SubSeq(body, Len(body) - Len(close) + 1, Len(body)) = close

\* {"error":"   and   "}
JSONErrorOpen == <<123, 34, 101, 114, 114, 111, 114, 34, 58, 34>>

JSONErrorClose == <<34, 125>>

\* <xmlError><error>   and   </error></xmlError>
XMLErrorOpen == <<60, 120, 109, 108, 69, 114, 114, 111, 114, 62, 60, 101, 114, 114, 111, 114, 62>>

XMLErrorClose ==
    <<60, 47, 101, 114, 114, 111, 114, 62, 60, 47, 120, 109, 108, 69, 114, 114, 111, 114, 62>>

\* C6: after the default error handler has run on a failure {status, message},
\* the response status is the failure's status and the body, by the branch of
\* the request, is a JSON object whose one key "error" decodes to the message,
\* an xmlError document whose error element decodes to the message, or the
\* message itself
C6_DefaultHandlerRoundTrip ==
    \A r \in Handlers :
        ( /\ handlerCalls[r] = 1
          /\ (given = <<>> \/ given[1].ErrorHandler = "nil")
          /\ handlerArg[r].kind = "fail" ) =>
            LET e == handlerArg[r]
                body == resp[r].body
                b == ContentTypeBranch(req[r].contentType)
            IN  /\ resp[r].written
                /\ resp[r].status = e.status
                /\ b = "json" =>
                      /\ Encloses(body, JSONErrorOpen, JSONErrorClose)
                      /\ JSONStringText(Between(body, JSONErrorOpen, JSONErrorClose))
                            = e.message
                /\ b = "xml" =>
                      /\ Encloses(body, XMLErrorOpen, XMLErrorClose)
                      /\ XMLCharData(Between(body, XMLErrorOpen, XMLErrorClose))
                            = e.message
                /\ b = "other" => body = e.message

\* the failure with status 403 and a message full of special characters has been
\* written as JSON
C6_Witness ==
    \E r \in Handlers :
        /\ handlerCalls[r] = 1
        /\ given # <<>> /\ given[1].ErrorHandler = "nil"
        /\ handlerArg[r] = NewError(403, mSpecial)
        /\ ContentTypeBranch(req[r].contentType) = "json"
        /\ resp[r].status = 403
        /\ resp[r].body # JSONErrorOpen \o mSpecial \o JSONErrorClose

\* C7: with a configured ErrorHandler the response after a failure is what that
\* handler produces from the failure, whatever the branch; with none configured,
\* or no configuration, it is what the default handler produces
C7_ErrorHandlerReplaceable ==
    \A r \in Handlers :
        handlerCalls[r] = 1 =>
            LET out == IF given # <<>> /\ given[1].ErrorHandler = "custom"
                       THEN CustomErrorHandler(req[r], handlerArg[r], Untouched)
                       ELSE DefaultErrorHandler(req[r], handlerArg[r], Untouched)
            IN  /\ resp[r] = out.resp
                /\ returned[r] = out.ret

\* the replacement has answered a failure of a JSON request in plain text
C7_Witness ==
    \E r \in Handlers :
        /\ handlerCalls[r] = 1
        /\ given # <<>> /\ given[1].ErrorHandler = "custom"
        /\ ContentTypeBranch(req[r].contentType) = "json"
        /\ handlerArg[r].kind = "fail"
        /\ resp[r] = Respond(StatusUnprocessableEntity, handlerArg[r].message)

\* the body of q cannot be decoded in the encoding of branch b
Undecodable(q, b) ==
    \/ b = "json" /\ ~(q.body.kind = "json" /\ q.body.wf)
    \/ b = "xml" /\ ~(q.body.kind = "xml" /\ q.body.wf)

\* C8: a built-in rule evaluated on a JSON (XML) request whose body cannot be
\* decoded returns the failure 400 'Invalid JSON request body' ('Invalid XML
\* request body'), whatever its fields and bounds
C8_MalformedBodyPreempts ==
    \A r \in Handlers :
        LET n == Len(evaluated[r])
            b == ContentTypeBranch(req[r].contentType)
        IN  ( /\ n >= 1
              /\ cfg.Rules[n].type # "custom"
              /\ Undecodable(req[r], b) ) =>
                err[r] = NewError(StatusBadRequest,
                                  IF b = "json" THEN ErrInvalidJSONBody
                                  ELSE ErrInvalidXMLBody)

----------------------------------------------------------------------------
(* Content-Type headers: one Unicode rule, requests under many headers *)

\* header texts with the media type each declares
HeaderForms ==
    { [text |-> "", media |-> ""],
      [text |-> "application/json", media |-> "application/json"],
      [text |-> "application/json; charset=utf-8", media |-> "application/json"],
      [text |-> "application/json; charset=UTF-8", media |-> "application/json"],
      [text |-> "application/json;charset=utf-8", media |-> "application/json"],
      [text |-> "application/json; charset=iso-8859-1", media |-> "application/json"],
      [text |-> "application/xml", media |-> "application/xml"],
      [text |-> "application/xml; charset=utf-8", media |-> "application/xml"],
      [text |-> "application/xml; charset=UTF-8", media |-> "application/xml"],
      [text |-> "text/xml", media |-> "text/xml"],
      [text |-> "text/xml; charset=utf-8", media |-> "text/xml"],
      [text |-> "text/xml;charset=utf-8", media |-> "text/xml"],
      [text |-> "text/plain", media |-> "text/plain"],
      [text |-> "text/plain; charset=utf-8", media |-> "text/plain"],
      [text |-> "application/x-www-form-urlencoded",
       media |-> "application/x-www-form-urlencoded"],
      [text |-> "application/jsonx", media |-> "application/jsonx"] }

HeaderArgs ==
    { << [Rules |-> <<RestrictUnicode(<<fName>>)>>, Next |-> next,
          ErrorHandler |-> "nil", ContextKey |-> key] >> :
        next \in {"nil", "isGET"}, key \in {"", "validationResult"} }

HeaderRequests ==
    { Request(method, h.text, body) :
        method \in {"GET", "POST"},
        h \in HeaderForms,
        body \in { JSONBody(<< <<fName, Str(vPlain)>> >>, TRUE),
                   JSONBody(<< <<fName, Str(vUnicode)>> >>, TRUE),
                   XMLBody(<< <<fName, Str(vUnicode)>> >>, TRUE) } }

InitHeaders == InitWith(HeaderArgs)

NextHeaders == Step(1, HeaderRequests)

SpecHeaders == InitHeaders /\ [][NextHeaders]_vars

\* the branch a media type belongs to
BranchOfMedia(media) ==
    CASE media = "application/json" -> "json"
      [] media \in {"application/xml", "text/xml"} -> "xml"
      [] OTHER -> "other"

\* C5: every classification made for a request gives the branch of the media
\* type its header declares, with or without a charset suffix: JSON for
\* application/json, XML for application/xml and text/xml, Other for the rest
\* and for an empty header
C5_ClassifierByMediaType ==
    \A r \in Handlers :
        \A h \in HeaderForms :
            req[r].contentType = h.text =>
                \A i \in 1..Len(branch[r]) : branch[r][i] = BranchOfMedia(h.media)

----------------------------------------------------------------------------
(* One rule: every rule type, bounds of either sign, bodies in the three
   encodings *)

\* a key no rule is configured with: "k"
fOther == <<107>>

\* the digit strings "7" and "12"
vDigit == <<55>>

vTwoDigits == <<49, 50>>

\* the digit string "2147483648", one above the largest int
vHuge == <<50, 49, 52, 55, 52, 56, 51, 54, 52, 56>>

RuleFieldLists ==
    { <<fName>>,
      <<fName, fEmail, fAge>>, <<fName, fAge, fEmail>>, <<fEmail, fName, fAge>>,
      <<fEmail, fAge, fName>>, <<fAge, fName, fEmail>>, <<fAge, fEmail, fName>> }

RuleSet ==
    {RestrictUnicode(fields) : fields \in RuleFieldLists}
    \cup {RestrictNumberOnly(<<fAge>>, max, maxDigits) :
            max \in {NoBound, Bound(-1), Bound(0), Bound(9), Bound(MaxInt)},
            maxDigits \in {NoBound, Bound(-1), Bound(1)}}
    \cup {RestrictStringLength(<<fName>>, maxLength) :
            maxLength \in {NoBound, Bound(-1), Bound(0), Bound(1)}}

RuleArgs ==
    { << [Rules |-> <<rule>>, Next |-> "nil", ErrorHandler |-> "nil",
          ContextKey |-> "validationResult"] >> : rule \in RuleSet }

RuleDocs ==
    { <<>>,
      << <<fOther, Str(vPlain)>> >>,
      << <<fName, Str(vUnicode)>> >>,
      << <<fName, Str(vPlain \o vWord)>> >>,
      << <<fAge, Str(vDigit)>> >>,
      << <<fAge, Str(vTwoDigits)>> >>,
      << <<fAge, Str(vHuge)>> >>,
      << <<fName, Str(vPlain)>>, <<fAge, Str(vUnicode)>>, <<fEmail, Str(vWord)>> >>,
      << <<fEmail, Str(vWord)>>, <<fName, Str(vPlain)>> >> }

RuleRequests ==
    { Request("POST", contentType, body) :
        contentType \in {MIMEApplicationJSON, MIMETextXML, "application/x-www-form-urlencoded"},
        body \in {JSONBody(doc, TRUE) : doc \in RuleDocs}
                 \cup {XMLBody(doc, TRUE) : doc \in RuleDocs}
                 \cup {FormBody(doc) : doc \in RuleDocs} }

InitRule == InitWith(RuleArgs)

NextRule == Step(1, RuleRequests)

SpecRule == InitRule /\ [][NextRule]_vars

\* the rule evaluated last for invocation r
LastRule(r) == cfg.Rules[Len(evaluated[r])]

\* field f does not occur in the body of q, read in the encoding of branch b
Absent(q, b, f) ==
    IF b = "other"
    THEN Index([i \in 1..Len(Body(q)) |-> LowerASCII(Body(q)[i])],
               [i \in 1..Len(f) |-> LowerASCII(f[i])]) = -1
    ELSE ~HasKey(q.body.doc, f)

\* C9: a built-in rule evaluated on a well-formed body that holds none of its
\* fields passes, whatever its bounds
C9_AbsentFieldNeverFails ==
    \A r \in Handlers :
        LET q == req[r]
            b == ContentTypeBranch(q.contentType)
        IN  ( /\ Len(evaluated[r]) >= 1
              /\ LastRule(r).type # "custom"
              /\ ~Undecodable(q, b)
              /\ \A i \in 1..Len(LastRule(r).Fields) : Absent(q, b, LastRule(r).Fields[i]) )
            => err[r] = Pass

\* the end of a value that starts at 0-based position start of body: the nearest
\* occurrence of another field of fields after it, or the end of the body
NearestEnd(body, start, field, fields) ==
    LET lower == [i \in 1..Len(body) |-> LowerASCII(body[i])]
        rest == Slice(lower, start, Len(body))
        ends == {start + Index(rest, [i \in 1..Len(fields[k]) |-> LowerASCII(fields[k][i])]) :
                    k \in {k \in 1..Len(fields) :
                             /\ fields[k] # field
                             /\ Index(rest, [i \in 1..Len(fields[k]) |->
                                                LowerASCII(fields[k][i])]) # -1}}
    IN  IF ends = {} THEN Len(body)
        ELSE CHOOSE e \in ends : \A o \in ends : e <= o

\* the value of field in an unstructured body: from after the field's name and
\* the separators that follow it to the nearest other field
NearestFieldValue(body, field, fields) ==
    LET lower == [i \in 1..Len(body) |-> LowerASCII(body[i])]
        startPos == Index(lower, [i \in 1..Len(field) |-> LowerASCII(field[i])])
    IN  IF startPos = -1 THEN <<>>
        ELSE LET start == SkipSeparators(body, startPos + Len(field)) IN
             TrimSpace(Slice(body, start, NearestEnd(body, start, field, fields)))

\* the value of field in the body of q, read in the encoding of branch b
OwnValue(q, b, field, fields) ==
    IF b = "other" THEN NearestFieldValue(Body(q), field, fields)
    ELSE IF HasKey(q.body.doc, field) THEN Lookup(q.body.doc, field).s
    ELSE <<>>

HasByteAbove127(str) == \E i \in 1..Len(str) : str[i] >= 128

\* C10: a Unicode rule evaluated on a well-formed body passes when no configured
\* field's value has a byte above 127, and otherwise fails with the message that
\* names a field whose own value has such a byte
C10_UnicodeNamesOffendingField ==
    \A r \in Handlers :
        LET q == req[r]
            b == ContentTypeBranch(q.contentType)
        IN  ( /\ Len(evaluated[r]) >= 1
              /\ LastRule(r).type = "unicode"
              /\ ~Undecodable(q, b) ) =>
            LET fields == LastRule(r).Fields
                offending == {i \in 1..Len(fields) :
                                 HasByteAbove127(OwnValue(q, b, fields[i], fields))}
            IN  IF offending = {} THEN err[r] = Pass
                ELSE \E i \in offending :
                        err[r] = NewError(StatusBadRequest,
                                          Sprintf(ErrUnicodeNotAllowedInField, <<fields[i]>>))

----------------------------------------------------------------------------
(* Properties of the numeric and the length rule *)

\* the value of field in an unstructured body as the numeric rule reads it: after
\* the first occurrence of the name, past every ' ', ':' and '=', up to the first
\* '&', newline or carriage return or the end of the body, white space trimmed
NumericFieldValue(body, field) ==
    LET lower == [i \in 1..Len(body) |-> LowerASCII(body[i])]
        startPos == Index(lower, [i \in 1..Len(field) |-> LowerASCII(field[i])])
    IN  IF startPos = -1 THEN <<>>
        ELSE LET start == SkipSeparators(body, startPos + Len(field))
                 stops == {i \in start..(Len(body) - 1) : body[i + 1] \in {38, 10, 13}}
                 end == IF stops = {} THEN Len(body)
                        ELSE CHOOSE i \in stops : \A j \in stops : i <= j
             IN  TrimSpace(Slice(body, start, end))

\* field f occurs in the body of q, read in the encoding of branch b; in a JSON
\* body it holds a string
Present(q, b, f) ==
    CASE b = "other" -> ~Absent(q, b, f)
      [] b = "json" -> HasKey(q.body.doc, f) /\ Lookup(q.body.doc, f).t = "str"
      [] OTHER -> HasKey(q.body.doc, f)

\* the digit string s without its leading zeros
RECURSIVE StripZeros(_)
StripZeros(s) == IF s # <<>> /\ Head(s) = 48 THEN StripZeros(Tail(s)) ELSE s

\* digit string a is before digit string b of the same length in the order of
\* the numbers they write
RECURSIVE DigitsBelow(_, _)
DigitsBelow(a, b) ==
    /\ a # <<>>
    /\ \/ Head(a) < Head(b)
       \/ Head(a) = Head(b) /\ DigitsBelow(Tail(a), Tail(b))

\* the number the digit string s writes is greater than the integer n
ValueExceeds(s, n) ==
    \/ n < 0
    \/ LET a == StripZeros(s)
           b == StripZeros(Digits(n))
       IN  \/ Len(a) > Len(b)
           \/ Len(a) = Len(b) /\ DigitsBelow(b, a)

\* C11: a numeric rule with one field evaluated on a well-formed body in which
\* the field holds an all-digit string fails with 'must not exceed <N> digits'
\* when MaxDigits is set and the string is longer, otherwise with 'must not
\* exceed <N>' when Max is set and the value is greater, and otherwise passes
C11_NumericBounds ==
    \A r \in Handlers :
        LET q == req[r]
            b == ContentTypeBranch(q.contentType)
        IN  ( /\ Len(evaluated[r]) >= 1
              /\ LastRule(r).type = "number"
              /\ Len(LastRule(r).Fields) = 1
              /\ ~Undecodable(q, b)
              /\ Present(q, b, LastRule(r).Fields[1]) ) =>
            LET rule == LastRule(r)
                f == rule.Fields[1]
                v == IF b = "other" THEN NumericFieldValue(Body(q), f)
                     ELSE Lookup(q.body.doc, f).s
            IN  (\A i \in 1..Len(v) : v[i] \in 48..57) =>
                    err[r] =
                        IF rule.MaxDigits # NoBound /\ Len(v) > rule.MaxDigits[1]
                        THEN NewError(StatusBadRequest,
                                      Sprintf(ErrFieldExceedsMaximumDigits,
                                              <<f, Itoa(rule.MaxDigits[1])>>))
                        ELSE IF rule.Max # NoBound /\ ValueExceeds(v, rule.Max[1])
                        THEN NewError(StatusBadRequest,
                                      Sprintf(ErrFieldExceedsMaximumValue,
                                              <<f, Itoa(rule.Max[1])>>))
                        ELSE Pass

\* the number of characters of a UTF-8 string: the bytes that continue none
Characters(s) == Cardinality({i \in 1..Len(s) : ~IsCont(s[i])})

\* C12: a length rule with one field evaluated on a well-formed body in which
\* the field holds a string fails with 'must not exceed <N> characters' exactly
\* when MaxLength is set and the string has more characters, and passes otherwise
C12_StringLengthInCharacters ==
    \A r \in Handlers :
        LET q == req[r]
            b == ContentTypeBranch(q.contentType)
        IN  ( /\ Len(evaluated[r]) >= 1
              /\ LastRule(r).type = "string"
              /\ Len(LastRule(r).Fields) = 1
              /\ ~Undecodable(q, b)
              /\ Present(q, b, LastRule(r).Fields[1]) ) =>
            LET rule == LastRule(r)
                f == rule.Fields[1]
                v == OwnValue(q, b, f, rule.Fields)
            IN  err[r] =
                    IF rule.MaxLength # NoBound /\ Characters(v) > rule.MaxLength[1]
                    THEN NewError(StatusBadRequest,
                                  Sprintf(ErrFieldExceedsMaximumLength,
                                          <<f, Itoa(rule.MaxLength[1])>>))
                    ELSE Pass

----------------------------------------------------------------------------
(* Two requests at the same handler, their steps interleaved *)

ConcurrentArgs ==
    { << [Rules |-> rules, Next |-> next, ErrorHandler |-> handler,
          ContextKey |-> "validationResult"] >> :
        rules \in { <<RestrictUnicode(<<fName>>)>>,
                    <<RestrictNumberOnly(<<fAge>>, NoBound, NoBound),
                      RestrictUnicode(<<fName>>)>> },
        next \in {"nil", "isGET"},
        handler \in {"nil", "custom"} }

ConcurrentRequests ==
    { Request(method, contentType, body) :
        method \in {"GET", "POST"},
        contentType \in {MIMEApplicationJSON, "text/plain"},
        body \in { JSONBody(<< <<fName, Str(vPlain)>> >>, TRUE),
                   JSONBody(<< <<fName, Str(vUnicode)>> >>, TRUE) } }

InitConcurrent == InitWith(ConcurrentArgs)

NextConcurrent == \E r \in Handlers : Step(r, ConcurrentRequests)

SpecConcurrent == InitConcurrent /\ [][NextConcurrent]_vars

\* what invocation r has produced
Produced(r) ==
    [err |-> err[r], resp |-> resp[r], locals |-> locals[r], returned |-> returned[r],
     next |-> nextCalls[r], handler |-> handlerCalls[r]]

FirstStop(rules, q) ==
    LET stops == {k \in 1..Len(rules) : Restrict(rules[k], q).kind # "pass"}
    IN  IF stops = {} THEN 0 ELSE CHOOSE k \in stops : \A j \in stops : k <= j

\* what the handler with configuration config produces for request q when no
\* other request is under way
Alone(config, q) ==
    LET k == FirstStop(config.Rules, q)
        e == Restrict(config.Rules[k], q)
    IN  IF (config.Next = "isGET" /\ q.method = "GET") \/ k = 0
        THEN [err |-> Pass, resp |-> Untouched, locals |-> Pass, returned |-> Pass,
              next |-> 1, handler |-> 0]
        ELSE [err |-> e,
              resp |-> ErrorHandler(config, q, e, Untouched).resp,
              locals |-> IF config.ContextKey # "" THEN e ELSE Pass,
              returned |-> ErrorHandler(config, q, e, Untouched).ret,
              next |-> 0, handler |-> 1]

\* C15: under every interleaving the configuration stays what New made of its
\* argument, and every finished request has the verdict, the response and the
\* stored verdict it has when it is evaluated alone
C15_ConcurrentAsAlone ==
    /\ cfg = New(given)
    /\ \A r \in Handlers : pc[r] = "done" => Produced(r) = Alone(New(given), req[r])

\* two requests of one handler have finished, one failed and one passed on to the
\* next stage
C15_Witness ==
    /\ pc[1] = "done" /\ pc[2] = "done"
    /\ handlerCalls[1] = 1 /\ nextCalls[2] = 1
    /\ evaluated[1] # <<>> /\ evaluated[2] # <<>>
    /\ req[1].body # req[2].body

----------------------------------------------------------------------------
(* More properties of the chain *)

\* C14: while only passing rules have been evaluated the response is untouched
\* and nothing is stored; and when the second of two rules fails after the first
\* passed, the response and the stored verdict are those of the second rule's
\* failure alone
C14_PassingRuleLeavesNoTrace ==
    \A r \in Handlers :
        /\ pc[r] = "rules" => (resp[r] = Untouched /\ localsWrites[r] = 0 /\ locals[r] = Pass)
        /\ ( /\ pc[r] = "done"
             /\ Len(cfg.Rules) = 2
             /\ evaluated[r] = <<1, 2>>
             /\ handlerCalls[r] = 1 ) =>
              LET only == [cfg EXCEPT !.Rules = <<cfg.Rules[2]>>] IN
              /\ resp[r] = Alone(only, req[r]).resp
              /\ locals[r] = Alone(only, req[r]).locals
              /\ returned[r] = Alone(only, req[r]).returned

\* the first of two rules passed and the second failed with a 400
C14_Witness ==
    \E r \in Handlers :
        /\ pc[r] = "done"
        /\ evaluated[r] = <<1, 2>>
        /\ cfg.Rules[1].type = "number"
        /\ cfg.Rules[2].type = "unicode"
        /\ resp[r].status = StatusBadRequest
        /\ locals[r].kind = "fail"

\* C16: a built-in rule returns nil or a failure {status, message} for every
\* field list and every body in every branch
C16_RuleNeverPanics ==
    \A r \in Handlers :
        (Len(evaluated[r]) >= 1 /\ LastRule(r).type # "custom") =>
            err[r].kind \in {"pass", "fail"}

----------------------------------------------------------------------------
(* The two extractors of unstructured bodies, called on their own *)

\* n=x&g=ø&e=y   n=x&e=y&g=7   N: x(newline)g=12&e=y   (empty)   k=x
\* 0xFF 0xFF n   g = 7 &n=x   e=y   0xE9 =x&n=y   g=7(CR)(LF)n=x
ExtractBodies ==
    { <<110, 61, 120, 38, 103, 61, 195, 184, 38, 101, 61, 121>>,
      <<110, 61, 120, 38, 101, 61, 121, 38, 103, 61, 55>>,
      <<78, 58, 32, 120, 10, 103, 61, 49, 50, 38, 101, 61, 121>>,
      <<>>,
      <<107, 61, 120>>,
      <<255, 255, 110>>,
      <<103, 32, 61, 32, 55, 32, 38, 110, 61, 120>>,
      <<101, 61, 121>>,
      <<233, 61, 120, 38, 110, 61, 121>>,
      <<103, 61, 55, 13, 10, 110, 61, 120>> }

\* extractFieldValue(body, field, r) called with r.Fields = fields
ExtractGeneric(body, field, fields) ==
    /\ extraction' = [variant |-> "generic", body |-> body, field |-> field,
                      fields |-> fields, out |-> extractFieldValue(body, field, fields)]
    /\ UNCHANGED <<given, cfg, req, pc, idx, err, evaluated, branch, locals,
                   localsWrites, seen, resp, nextCalls, handlerCalls, handlerArg, returned>>

\* extractFieldValueForNumberOnly(body, field) called
ExtractNumberOnly(body, field) ==
    /\ extraction' = [variant |-> "number", body |-> body, field |-> field,
                      fields |-> <<field>>,
                      out |-> extractFieldValueForNumberOnly(body, field)]
    /\ UNCHANGED <<given, cfg, req, pc, idx, err, evaluated, branch, locals,
                   localsWrites, seen, resp, nextCalls, handlerCalls, handlerArg, returned>>

InitExtract == InitWith({<<>>})

NextExtract ==
    \E body \in ExtractBodies, fields \in RuleFieldLists :
        \E i \in 1..Len(fields) :
            \/ ExtractGeneric(body, fields[i], fields)
            \/ ExtractNumberOnly(body, fields[i])

SpecExtract == InitExtract /\ [][NextExtract]_vars

\* v is a run of consecutive bytes of body
IsSliceOf(v, body) ==
    \/ v = <<>>
    \/ \E i \in 1..Len(body) : \E j \in i..Len(body) : SubSeq(body, i, j) = v

\* field occurs in body, letter case aside
Occurs(body, field) ==
    Index([i \in 1..Len(body) |-> LowerASCII(body[i])],
          [i \in 1..Len(field) |-> LowerASCII(field[i])]) # -1

\* C17: a call of either extractor ends without an out-of-range access, with a
\* run of consecutive bytes of the body as its result, the empty string when the
\* field name does not occur in the body
C17_ExtractorsTotal ==
    extraction.variant # "none" =>
        /\ ~extraction.out.panic
        /\ IsSliceOf(extraction.out.value, extraction.body)
        /\ ~Occurs(extraction.body, extraction.field) => extraction.out.value = <<>>

AllASCII(s) == \A i \in 1..Len(s) : s[i] < 128

\* C18: for a body of ASCII bytes the generic extractor returns the bytes from
\* the value start to the nearest occurrence after it of another configured
\* field name, or to the end of the body, white space trimmed
C18_ValueEndsAtNearestField ==
    (extraction.variant = "generic" /\ AllASCII(extraction.body)) =>
        extraction.out =
            Extracted(NearestFieldValue(extraction.body, extraction.field, extraction.fields))

\* the orders the fields of a list can be written in
FieldOrders(fields) ==
    {p \in [1..Len(fields) -> {fields[i] : i \in 1..Len(fields)}] :
        \A i \in 1..Len(fields) : \E j \in 1..Len(fields) : p[j] = fields[i]}

\* C19: the generic extractor returns the same value for a field whatever the
\* order the rule's fields are listed in
C19_OrderInsensitive ==
    extraction.variant = "generic" =>
        \A p \in FieldOrders(extraction.fields) :
            extractFieldValue(extraction.body, extraction.field, p) = extraction.out

\* C20: the numeric extractor returns the bytes after the first occurrence of
\* the field name, letter case aside, past every leading ' ', ':' and '=', up to
\* the first '&', newline or carriage return or the end of the body, white
\* space trimmed
C20_NumericExtractor ==
    extraction.variant = "number" =>
        extraction.out = Extracted(NumericFieldValue(extraction.body, extraction.field))

----------------------------------------------------------------------------
(* One rule over several fields: rules of every type with one to three fields,
   documents with several values, each in the three encodings *)

\* the key "N": the field name "n" in upper case
fNameUpper == <<78>>

FieldRuleSet ==
    {RestrictUnicode(fields) :
        fields \in {<<fName>>, <<fName, fEmail, fAge>>, <<fEmail, fName>>}}
    \cup {RestrictNumberOnly(fields, max, maxDigits) :
            fields \in {<<fAge>>, <<fName, fAge>>, <<fAge, fName>>, <<fName, fEmail, fAge>>},
            max \in {NoBound, Bound(9)},
            maxDigits \in {NoBound, Bound(1)}}
    \cup {RestrictStringLength(fields, maxLength) :
            fields \in {<<fName, fEmail>>, <<fEmail, fName>>},
            maxLength \in {NoBound, Bound(1)}}

FieldArgs ==
    { << [Rules |-> <<rule>>, Next |-> "nil", ErrorHandler |-> "nil",
          ContextKey |-> "validationResult"] >> : rule \in FieldRuleSet }

FieldDocs ==
    { << <<fName, Str(vPlain)>>, <<fEmail, Str(vWord)>> >>,
      << <<fName, Str(vPlain \o vWord)>>, <<fEmail, Str(vPlain \o vWord)>> >>,
      << <<fEmail, Str(vUnicode)>>, <<fName, Str(vUnicode)>> >>,
      << <<fName, Str(vPlain)>>, <<fAge, Str(vUnicode)>>, <<fEmail, Str(vUnicode)>> >>,
      << <<fName, Str(vPlain)>>, <<fAge, Str(vTwoDigits)>> >>,
      << <<fAge, Str(vTwoDigits)>>, <<fName, Str(vPlain)>> >>,
      << <<fName, Str(vPlain)>>, <<fEmail, Str(vWord)>>, <<fAge, Str(vDigit)>> >>,
      << <<fName, Str(vTwoDigits)>>, <<fAge, Str(vTwoDigits)>> >>,
      << <<fAge, Str(vTwoDigits)>> >>,
      << <<fAge, Num(7)>> >>,
      << <<fAge, Num(12)>> >>,
      << <<fAge, Num(-5)>> >>,
      << <<fAge, OtherValue>>, <<fName, Num(7)>> >>,
      << <<fNameUpper, Str(vUnicode)>> >> }

FieldRequests ==
    { Request("POST", contentType, body) :
        contentType \in {MIMEApplicationJSON, MIMEApplicationXML, "text/plain"},
        body \in {JSONBody(doc, TRUE) : doc \in FieldDocs}
                 \cup {XMLBody(doc, TRUE) : doc \in FieldDocs}
                 \cup {FormBody(doc) : doc \in FieldDocs} }

InitFields == InitWith(FieldArgs)

NextFields == Step(1, FieldRequests)

SpecFields == InitFields /\ [][NextFields]_vars

\* the body of q is written in the encoding that branch b reads
Matching(q, b) ==
    /\ q.body.wf
    /\ \/ b = "json" /\ q.body.kind = "json"
       \/ b = "xml" /\ q.body.kind = "xml"
       \/ b = "other" /\ q.body.kind = "form"

AllStrings(doc) == \A i \in 1..Len(doc) : doc[i][2].t = "str"

\* every key of doc is spelled in lower case, as the fields of the rules are
LowerKeys(doc) ==
    \A i \in 1..Len(doc) : \A k \in 1..Len(doc[i][1]) :
        doc[i][1][k] = LowerASCII(doc[i][1][k])

\* the request that carries the values of doc as a JSON object
AsJSON(doc) == Request("POST", MIMEApplicationJSON, JSONBody(doc, TRUE))

\* C21: a built-in rule gives the values of a document written as first-level XML
\* elements or as form text k=v&k=v, under the keys as the rule spells them, the
\* verdict it gives the same values written as a JSON object of strings
C21_UniformAcrossEncodings ==
    \A r \in Handlers :
        LET q == req[r]
            b == ContentTypeBranch(q.contentType)
        IN  ( /\ Len(evaluated[r]) >= 1
              /\ LastRule(r).type # "custom"
              /\ Matching(q, b)
              /\ AllStrings(q.body.doc)
              /\ LowerKeys(q.body.doc) ) =>
            err[r] = Restrict(LastRule(r), AsJSON(q.body.doc))

\* key is the field name in another letter case
OtherCaseOf(key, field) ==
    /\ key # field
    /\ Len(key) = Len(field)
    /\ \A k \in 1..Len(key) : LowerASCII(key[k]) = LowerASCII(field[k])

\* C22: a Unicode rule with one field, on a body that holds the field name only
\* in another letter case, with a value that has a byte above 127: the Other
\* and the XML branch find the field and fail naming it, the JSON branch treats
\* the key as another field and passes
C22_FieldNameCase ==
    \A r \in Handlers :
        LET q == req[r]
            b == ContentTypeBranch(q.contentType)
        IN  ( /\ Len(evaluated[r]) >= 1
              /\ LastRule(r).type = "unicode"
              /\ Len(LastRule(r).Fields) = 1
              /\ Matching(q, b)
              /\ Len(q.body.doc) = 1
              /\ OtherCaseOf(q.body.doc[1][1], LastRule(r).Fields[1])
              /\ q.body.doc[1][2].t = "str"
              /\ HasByteAbove127(q.body.doc[1][2].s) ) =>
            err[r] = IF b = "json" THEN Pass ELSE UnicodeError(LastRule(r).Fields[1])

----------------------------------------------------------------------------
(* Properties of the numeric rule over several fields *)

HasNonDigit(str) == \E i \in 1..Len(str) : str[i] \notin 48..57

\* field f is in the body of q, read in the encoding of branch b, and its value
\* is not a number: a string with a byte that is no digit, or a JSON value that is
\* neither a string nor a number
NonNumeric(q, b, f) ==
    CASE b = "other" -> HasNonDigit(NumericFieldValue(Body(q), f))
      [] b = "json" ->
            /\ HasKey(q.body.doc, f)
            /\ \/ Lookup(q.body.doc, f).t = "other"
               \/ Lookup(q.body.doc, f).t = "str" /\ HasNonDigit(Lookup(q.body.doc, f).s)
      [] OTHER -> HasKey(q.body.doc, f) /\ HasNonDigit(Lookup(q.body.doc, f).s)

\* the entries of fields whose value is not a number, in the order of fields
RECURSIVE NonNumericFields(_, _, _)
NonNumericFields(q, b, fields) ==
    IF fields = <<>> THEN <<>>
    ELSE (IF NonNumeric(q, b, Head(fields)) THEN <<Head(fields)>> ELSE <<>>)
         \o NonNumericFields(q, b, Tail(fields))

\* the names 'a', 'b' of a list of fields, without the outer quotes
RECURSIVE QuotedNames(_)
QuotedNames(names) ==
    IF names = <<>> THEN <<>>
    ELSE IF Len(names) = 1 THEN names[1]
    ELSE names[1] \o <<39, 44, 32, 39>> \o QuotedNames(Tail(names))

\* 400 "The '<names>' field must contain only numbers"
OnlyNumbersFailure(names) ==
    [kind |-> "fail", status |-> 400,
     message |-> <<84, 104, 101, 32, 39>> \o QuotedNames(names)
                 \o <<39, 32, 102, 105, 101, 108, 100, 32, 109, 117, 115, 116, 32, 99, 111,
                      110, 116, 97, 105, 110, 32, 111, 110, 108, 121, 32, 110, 117, 109, 98,
                      101, 114, 115>>]

\* a 'must not exceed <N> digits' or 'must not exceed <N>' failure of rule
IsBoundFailure(rule, e) ==
    \E i \in 1..Len(rule.Fields) :
        \/ rule.MaxDigits # NoBound
           /\ e = NewError(StatusBadRequest,
                           Sprintf(ErrFieldExceedsMaximumDigits,
                                   <<rule.Fields[i], Itoa(rule.MaxDigits[1])>>))
        \/ rule.Max # NoBound
           /\ e = NewError(StatusBadRequest,
                           Sprintf(ErrFieldExceedsMaximumValue,
                                   <<rule.Fields[i], Itoa(rule.Max[1])>>))

\* C23: a numeric rule evaluated in the JSON or the XML branch on a body in which
\* at least one configured field is not a number fails with the 'must contain
\* only numbers' message that names these fields, whatever the bounds and the
\* values of the other fields
C23_NonNumericBeforeBounds ==
    \A r \in Handlers :
        LET q == req[r]
            b == ContentTypeBranch(q.contentType)
        IN  ( /\ Len(evaluated[r]) >= 1
              /\ LastRule(r).type = "number"
              /\ b \in {"json", "xml"}
              /\ Matching(q, b)
              /\ NonNumericFields(q, b, LastRule(r).Fields) # <<>> ) =>
            err[r] = OnlyNumbersFailure(NonNumericFields(q, b, LastRule(r).Fields))

\* C24: a numeric rule whose body has configured fields that are not numbers,
\* and whose verdict is no bound failure, fails with the one 'must contain only
\* numbers' message that names these fields, each entry of the field list once
\* and in the order of the list, and no other field
C24_NamesEveryNonNumericField ==
    \A r \in Handlers :
        LET q == req[r]
            b == ContentTypeBranch(q.contentType)
        IN  ( /\ Len(evaluated[r]) >= 1
              /\ LastRule(r).type = "number"
              /\ Matching(q, b)
              /\ NonNumericFields(q, b, LastRule(r).Fields) # <<>>
              /\ ~IsBoundFailure(LastRule(r), err[r]) ) =>
            err[r] = OnlyNumbersFailure(NonNumericFields(q, b, LastRule(r).Fields))

\* a JSON body with two fields that are not numbers and a third that is one
C24_Witness ==
    \E r \in Handlers :
        LET q == req[r]
            b == ContentTypeBranch(q.contentType)
        IN  /\ Len(evaluated[r]) >= 1
            /\ LastRule(r).type = "number"
            /\ b = "json"
            /\ Matching(q, b)
            /\ Len(NonNumericFields(q, b, LastRule(r).Fields)) = 2
            /\ Len(LastRule(r).Fields) = 3
            /\ \A i \in 1..3 : HasKey(q.body.doc, LastRule(r).Fields[i])
            /\ err[r] = OnlyNumbersFailure(NonNumericFields(q, b, LastRule(r).Fields))

\* the text of the value of field f in the body of q, read in the encoding of
\* branch b: a JSON number as its decimal digits, an absent field as ""
ValueText(q, b, f) ==
    CASE b = "other" -> NumericFieldValue(Body(q), f)
      [] ~HasKey(q.body.doc, f) -> <<>>
      [] b = "json" /\ Lookup(q.body.doc, f).t = "num" -> Itoa(Lookup(q.body.doc, f).n)
      [] OTHER -> Lookup(q.body.doc, f).s

DigitsFailure(rule, f) ==
    NewError(StatusBadRequest,
             Sprintf(ErrFieldExceedsMaximumDigits, <<f, Itoa(rule.MaxDigits[1])>>))

MaxFailure(rule, f) ==
    NewError(StatusBadRequest,
             Sprintf(ErrFieldExceedsMaximumValue, <<f, Itoa(rule.Max[1])>>))

\* C25: the checks of one field of a numeric rule run digit-only, then MaxDigits,
\* then Max: no verdict is the 'must not exceed <N>' failure of a field whose
\* value has more than MaxDigits digits, no verdict is a bound failure of a field
\* that is not a number, and a rule with one field whose all-digit value breaks
\* both bounds fails with the 'must not exceed <N> digits' message
C25_DigitOnlyThenDigitsThenMax ==
    \A r \in Handlers :
        LET q == req[r]
            b == ContentTypeBranch(q.contentType)
        IN  ( /\ Len(evaluated[r]) >= 1
              /\ LastRule(r).type = "number"
              /\ Matching(q, b) ) =>
            LET rule == LastRule(r) IN
            /\ \A i \in 1..Len(rule.Fields) :
                LET f == rule.Fields[i]
                    v == ValueText(q, b, f)
                IN  /\ (rule.Max # NoBound /\ err[r] = MaxFailure(rule, f)) =>
                            ~(rule.MaxDigits # NoBound /\ Len(v) > rule.MaxDigits[1])
                    /\ NonNumeric(q, b, f) =>
                            /\ rule.MaxDigits # NoBound => err[r] # DigitsFailure(rule, f)
                            /\ rule.Max # NoBound => err[r] # MaxFailure(rule, f)
            /\ ( /\ Len(rule.Fields) = 1
                 /\ rule.MaxDigits # NoBound
                 /\ rule.Max # NoBound
                 /\ ~HasNonDigit(ValueText(q, b, rule.Fields[1]))
                 /\ Len(ValueText(q, b, rule.Fields[1])) > rule.MaxDigits[1]
                 /\ ValueExceeds(ValueText(q, b, rule.Fields[1]), rule.Max[1]) ) =>
                    err[r] = DigitsFailure(rule, rule.Fields[1])

\* a rule with one field and both bounds, on a body whose value breaks both
C25_Witness ==
    \E r \in Handlers :
        LET q == req[r]
            b == ContentTypeBranch(q.contentType)
        IN  /\ Len(evaluated[r]) >= 1
            /\ LastRule(r).type = "number"
            /\ Matching(q, b)
            /\ Len(LastRule(r).Fields) = 1
            /\ LastRule(r).MaxDigits # NoBound
            /\ LastRule(r).Max # NoBound
            /\ HasKey(q.body.doc, LastRule(r).Fields[1])
            /\ ~HasNonDigit(ValueText(q, b, LastRule(r).Fields[1]))
            /\ Len(ValueText(q, b, LastRule(r).Fields[1])) > LastRule(r).MaxDigits[1]
            /\ ValueExceeds(ValueText(q, b, LastRule(r).Fields[1]), LastRule(r).Max[1])
            /\ err[r] = DigitsFailure(LastRule(r), LastRule(r).Fields[1])

----------------------------------------------------------------------------
(* The first violation in field order *)

\* the value of field f in the body of q breaks rule: a byte above 127 for a
\* Unicode rule, more than MaxLength characters for a length rule, more than
\* MaxDigits digits or a value above Max for a numeric rule
Violates(rule, q, b, f) ==
    CASE rule.type = "unicode" -> HasByteAbove127(OwnValue(q, b, f, rule.Fields))
      [] rule.type = "string" ->
            /\ rule.MaxLength # NoBound
            /\ Characters(OwnValue(q, b, f, rule.Fields)) > rule.MaxLength[1]
      [] rule.type = "number" ->
            /\ Present(q, b, f)
            /\ ~HasNonDigit(ValueText(q, b, f))
            /\ \/ rule.MaxDigits # NoBound /\ Len(ValueText(q, b, f)) > rule.MaxDigits[1]
               \/ rule.Max # NoBound /\ ValueExceeds(ValueText(q, b, f), rule.Max[1])
      [] OTHER -> FALSE

\* the entries of fields whose value breaks rule, in the order of fields
RECURSIVE ViolatingFields(_, _, _, _)
ViolatingFields(rule, q, b, fields) ==
    IF fields = <<>> THEN <<>>
    ELSE (IF Violates(rule, q, b, Head(fields)) THEN <<Head(fields)>> ELSE <<>>)
         \o ViolatingFields(rule, q, b, Tail(fields))

\* the failure of rule that names field f
FailureNaming(rule, q, b, f) ==
    CASE rule.type = "unicode" ->
            NewError(StatusBadRequest, Sprintf(ErrUnicodeNotAllowedInField, <<f>>))
      [] rule.type = "string" ->
            NewError(StatusBadRequest,
                     Sprintf(ErrFieldExceedsMaximumLength, <<f, Itoa(rule.MaxLength[1])>>))
      [] rule.MaxDigits # NoBound /\ Len(ValueText(q, b, f)) > rule.MaxDigits[1] ->
            DigitsFailure(rule, f)
      [] OTHER -> MaxFailure(rule, f)

\* C26: a built-in rule evaluated on a body in which two or more configured
\* fields break it fails with the failure that names the first of them in the
\* order of the rule's field list
C26_FirstViolationInFieldOrder ==
    \A r \in Handlers :
        LET q == req[r]
            b == ContentTypeBranch(q.contentType)
        IN  ( /\ Len(evaluated[r]) >= 1
              /\ LastRule(r).type # "custom"
              /\ Matching(q, b)
              /\ Len(ViolatingFields(LastRule(r), q, b, LastRule(r).Fields)) >= 2 ) =>
            err[r] = FailureNaming(LastRule(r), q, b,
                                   ViolatingFields(LastRule(r), q, b, LastRule(r).Fields)[1])

\* C27: a numeric rule evaluated in the Other branch on a body in which two or
\* more configured fields are not numbers fails with the 'must contain only
\* numbers' message that names the first of them only
C27_OtherStopsAtFirst ==
    \A r \in Handlers :
        LET q == req[r]
            b == ContentTypeBranch(q.contentType)
        IN  ( /\ Len(evaluated[r]) >= 1
              /\ LastRule(r).type = "number"
              /\ b = "other"
              /\ Matching(q, b)
              /\ Len(NonNumericFields(q, b, LastRule(r).Fields)) >= 2 ) =>
            err[r] = OnlyNumbersFailure(<<NonNumericFields(q, b, LastRule(r).Fields)[1]>>)

----------------------------------------------------------------------------
(* JSON values that are no strings *)

\* the number of decimal digits of the integer n, its sign aside
DigitCount(n) == Len(Digits(IF n < 0 THEN 0 - n ELSE n))

\* C28: a numeric rule with one field evaluated in the JSON branch on a body in
\* which the field holds a number literal fails with 'must not exceed <N>
\* digits' when MaxDigits is set and the integer has more digits, otherwise with
\* 'must not exceed <N>' when Max is set and the integer is greater, and
\* otherwise passes; on a body in which the field holds a value that is neither
\* a string nor a number it fails with 'must contain only numbers'
C28_JSONNumberLiteral ==
    \A r \in Handlers :
        LET q == req[r]
            b == ContentTypeBranch(q.contentType)
        IN  ( /\ Len(evaluated[r]) >= 1
              /\ LastRule(r).type = "number"
              /\ Len(LastRule(r).Fields) = 1
              /\ b = "json"
              /\ Matching(q, b)
              /\ HasKey(q.body.doc, LastRule(r).Fields[1]) ) =>
            LET rule == LastRule(r)
                f == rule.Fields[1]
                v == Lookup(q.body.doc, f)
            IN  /\ v.t = "num" =>
                    err[r] = IF rule.MaxDigits # NoBound /\ DigitCount(v.n) > rule.MaxDigits[1]
                             THEN DigitsFailure(rule, f)
                             ELSE IF rule.Max # NoBound /\ v.n > rule.Max[1]
                             THEN MaxFailure(rule, f)
                             ELSE Pass
                /\ v.t = "other" => err[r] = OnlyNumbersFailure(<<f>>)

----------------------------------------------------------------------------
(* The stored verdict and the error handler *)

\* C29: with a ContextKey set, an error handler that has been called was given
\* the failure of the rule that stopped the chain and found that same failure
\* stored under the key, and no request has the key written more than once
C29_StoredBeforeHandler ==
    \A r \in Handlers :
        cfg.ContextKey # "" =>
            /\ localsWrites[r] <= 1
            /\ handlerCalls[r] >= 1 =>
                  /\ IsFailure(handlerArg[r])
                  /\ handlerArg[r] = Outcome(r, Len(evaluated[r]))
                  /\ seen[r] = handlerArg[r]
                  /\ locals[r] = handlerArg[r]
                  /\ localsWrites[r] = 1

\* the custom error handler called for a failure of the second rule of a chain
C29_Witness ==
    \E r \in Handlers :
        /\ cfg.ContextKey # ""
        /\ cfg.ErrorHandler = "custom"
        /\ handlerCalls[r] = 1
        /\ Len(evaluated[r]) = 2
        /\ handlerArg[r].kind = "fail"
        /\ seen[r] = handlerArg[r]

\* the index of the first rule of the chain that does not pass the request of
\* invocation r, 0 when every rule passes
FirstNotPassing(r) ==
    LET stops == {k \in 1..Len(cfg.Rules) : Outcome(r, k) # Pass}
    IN  IF stops = {} THEN 0 ELSE CHOOSE k \in stops : \A j \in stops : k <= j

\* C30: a request that is not bypassed, answered under the default error handler,
\* whose first rule not to pass returns an error that is no *Error: the rules up
\* to that one were evaluated and no other, the handler was called once with
\* that error, the response is untouched, the error is returned to the host as
\* it is, and the next handler was not called
C30_PlainErrorReturnedUnchanged ==
    \A r \in Handlers :
        ( /\ pc[r] = "done"
          /\ ~BypassRequested(r)
          /\ cfg.ErrorHandler = "DefaultErrorHandler"
          /\ FirstNotPassing(r) # 0
          /\ Outcome(r, FirstNotPassing(r)).kind = "error" ) =>
            /\ evaluated[r] = [k \in 1..FirstNotPassing(r) |-> k]
            /\ handlerCalls[r] = 1
            /\ handlerArg[r] = Outcome(r, FirstNotPassing(r))
            /\ resp[r] = Untouched
            /\ returned[r] = Outcome(r, FirstNotPassing(r))
            /\ nextCalls[r] = 0

\* a chain of two rules whose first returns an error that is no *Error
C30_Witness ==
    \E r \in Handlers :
        /\ pc[r] = "done"
        /\ ~BypassRequested(r)
        /\ cfg.ErrorHandler = "DefaultErrorHandler"
        /\ Len(cfg.Rules) = 2
        /\ Outcome(r, 1).kind = "error"
        /\ evaluated[r] = <<1>>
        /\ returned[r] = Outcome(r, 1)
        /\ resp[r] = Untouched

====
